---- MODULE Spec2Model ----
(***************************************************************************)
(* A model of the HTTP request-lifecycle core of swe-be-mono (pkg/httpkit): *)
(* the middleware composer (httpmid.go), the request/response recorder     *)
(* (httplog.go) and the error-aware router (ServeMux).                     *)
(*                                                                         *)
(* Pointers are modelled as identifiers into sequences (the heap): a       *)
(* recorder id indexes recs, a buffer id indexes bufs, 0 is the nil        *)
(* pointer.  Pure operators compute the effect of one Go function on a     *)
(* memory record; the actions apply them to the variables.                 *)
(***************************************************************************)
EXTENDS Integers, Sequences, FiniteSets, TLC

\* ------------------------------------------------------------------ bounds
MaxBody == 2
MaxChunk == 2
MaxOps == 3
MaxRequests == 2
MaxMids == 3
MaxOpts == 2
MaxRouteMids == 2
MaxDispatch == 1
MaxInFlight == 2
MaxWrap == 2
MaxErrDepth == 2
MaxSignals == 2
MaxAtomics == 3
MaxRows == 2
MaxProcs == 2
MaxCalls == 1

\* http.StatusOK, the status Write commits when none was written before.
StatusOK == 200

\* Status codes a handler passes to WriteHeader.
Codes == {201, 400}

Min(a, b) == IF a < b THEN a ELSE b

\* The bytes numbered from+1 .. from+n: the k-th byte of a stream is k, so
\* that equal contents mean equal bytes in equal order.
Bytes(from, n) == [i \in 1 .. n |-> from + i]

\* ---------------------------------------------------------------- variables
VARIABLES
    slots,    \* the requests that can be in flight at once (fixed by Init)
    recs,     \* heap of *logEntryRecorder objects, by id
    bufs,     \* heap of *bytebufferpool.ByteBuffer contents, by id
    rpool,    \* _recorderPool: ids of the recorders sitting in the pool
    bpool,    \* bytebufferpool's default pool: ids of the pooled buffers
    rw,       \* rw[q]: the underlying http.ResponseWriter of request q
    body,     \* body[q]: the original request body (io.ReadCloser) of request q
    reqBody,  \* reqBody[q]: the Body field of the *http.Request q (a reference)
    clock,    \* the last reading of time.Now().UnixNano()
    cur,      \* cur[q]: the recorder LogEntryRecorder checked out for q, 0 if none
    served,   \* requests that have left LogEntryRecorder
    ops,      \* ops[q]: calls the handler of q has made so far
    obs,      \* obs[q]: the last call the handler made and what it got back
    sent      \* sent[q]: what the handler has written and read so far

recVars == <<slots, recs, bufs, rpool, bpool, rw, body, reqBody, clock, cur,
             served, ops, obs, sent>>

VARIABLES
    mKind,    \* "mux" (ReduceMuxMiddleware) or "net" (ReduceNetMiddleware)
    mMids,    \* the middlewares slice passed to Reduce
    mBase,    \* the handler h passed to Then
    mPc,      \* where the caller is: "start", "reduced", "serving", "done"
    mChain,   \* the handler Then returned
    mExec,    \* the call of that handler: frames, trace and result
    mClo,     \* the slice the closure returned by Reduce holds: "caller" for the
              \* caller's own (Reduce(mids...)), "copy" for the one made for
              \* listed arguments (Reduce(m1, ..., mn)), "none" before Reduce
    mCopy,    \* the slice made for listed arguments
    mAtReduce \* the middlewares as they were when Reduce was called

midVars == <<mKind, mMids, mBase, mPc, mChain, mExec, mClo, mCopy, mAtReduce>>

VARIABLES
    xMux,     \* the *ServeMux: conf, midl and core (the router with its routes)
    xPc,      \* "setup", "routing", "chain", "responded" or "idle"
    xReq,     \* the request being served: method and path
    xExec,    \* the call of the matched route's handler
    xOut,     \* what answered the request so far, in order
    xErrs     \* the errors handed to the LastResortErrorHandler for the request

muxVars == <<xMux, xPc, xReq, xExec, xOut, xErrs>>

VARIABLES
    tpc       \* tpc[q]: where the goroutine of q is inside putLogEntryRecorder

tearVars == <<tpc>>

VARIABLES
    lW,       \* the http.ResponseWriter passed to GetLogEntry, outermost layer first
    lRw,      \* the local rw of GetLogEntry: what is left to look at
    lPc,      \* "start", "loop", "done" or "off"
    lRes,     \* what the call in progress returned: LogEntry and found flag
    lFirst    \* what the first call returned

lookVars == <<lW, lRw, lPc, lRes, lFirst>>

\* ResolveError and the inspection of its result.
VARIABLES
    rE,        \* the error handed to ResolveError
    rErr,      \* what ResolveError returned
    rPc,       \* "start", "wrapped", "as", "text", "done", or "off"
    rAs,       \* result of errors.As(rErr, &resolvedErr)
    rText,     \* rErr.Error()
    rIs        \* result of errors.Is(rErr, rE)

resVars == <<rE, rErr, rPc, rAs, rText, rIs>>

\* One request through a ServeMux whose global middleware is LogAndErrHandling.
VARIABLES
    eW,        \* the writer the middleware receives (layers, as lW)
    eErr,      \* the error the route handler returns
    eFail,     \* whether problemdetail.WriteJSON fails for this request
    ePc,       \* position of the request
    eRet,      \* the error travelling up the chain
    eMapped,   \* what MapError returned, NilErr before
    eLogs,     \* records written to the slog.Logger
    eOut       \* error responses rendered, in order: who rendered, status

ehVars == <<eW, eErr, eFail, ePc, eRet, eMapped, eLogs, eOut>>

\* NewServeMux called with a list of options.
VARIABLES
    nOpts,     \* the options passed
    nMux,      \* the mux returned
    nPc        \* "start", "made" or "off"

newVars == <<nOpts, nMux, nPc>>

\* GracefulRunner.ListenAndServe: the runner, the goroutine running the
\* wrapped server, and the signals delivered to the process.
VARIABLES
    gWait,     \* GracefulRunner.waitTimeout, in seconds
    gPc,       \* where ListenAndServe is: "start", "select", "signalled",
               \* "inShutdown", "forcing", "inClose", "waiting", "returned"; "off"
    gSrv,      \* the goroutine: "none", "spawned", "listening", "sending", "done"
    gSigCh,    \* signalListener: the number of signals buffered (capacity 1)
    gSigs,     \* the signals delivered so far
    gErrCh,    \* serverErr: the errors buffered (capacity 1)
    gLog,      \* calls and returns of the wrapped server and receipts, in order
    gRet       \* what ListenAndServe returned

runVars == <<gWait, gPc, gSrv, gSigCh, gSigs, gErrCh, gLog, gRet>>

\* ExecTransaction called with a list of Atomics.
VARIABLES
    tAtoms,    \* transactions: what each Atomic does
    tBegin,    \* what db.BeginTxx returns
    tPc,       \* "start", "loop", "returned", "panicked"; "off"
    tI,        \* the loop index i, counted from 1
    tCtx,      \* ctx
    tLog,      \* the calls made, in order
    tRet       \* what ExecTransaction returned

txVars == <<tAtoms, tBegin, tPc, tI, tCtx, tLog, tRet>>

\* The Atomic made by NamedExec, called once.
VARIABLES
    neConf,    \* conf: the execOption the options built
    neRes,     \* what the driver gives: the exec error, RowsAffected, LastInsertId
    neDst,     \* the two destinations: *affectedRows and *lastInsertedID
    neWrites,  \* the stores made to the destinations, in order
    nePc,      \* "start", "affected", "lastid", "returned"; "off"
    neErr      \* what the Atomic returned

execVars == <<neConf, neRes, neDst, neWrites, nePc, neErr>>

\* Goroutines calling SetHashComparer and the methods of Password.
VARIABLES
    pHc,       \* hashComparer: the two words of the interface value
    pLock,     \* lock: the goroutine holding it, 0 for none
    pOp,       \* the call each goroutine is in, "none" outside one
    pPc,       \* where in it
    pArg,      \* the comparer a SetHashComparer call was given
    pGot,      \* the words a reader has loaded
    pAcc,      \* the last access to hashComparer each goroutine made
    pCalls     \* the calls each goroutine has made

pwVars == <<pHc, pLock, pOp, pPc, pArg, pGot, pAcc, pCalls>>

vars == <<recVars, midVars, muxVars, tearVars, lookVars, resVars, ehVars, newVars,
          runVars, txVars, execVars, pwVars>>

\* What the steps of each part of the program leave alone.
restOfRec ==
    <<midVars, muxVars, tearVars, lookVars, resVars, ehVars, newVars, runVars, txVars,
      execVars, pwVars>>
restOfMid ==
    <<recVars, muxVars, tearVars, lookVars, resVars, ehVars, newVars, runVars, txVars,
      execVars, pwVars>>
restOfMux ==
    <<midVars, tearVars, lookVars, resVars, ehVars, newVars, runVars, txVars,
      execVars, pwVars>>
restOfTear ==
    <<midVars, muxVars, lookVars, resVars, ehVars, newVars, runVars, txVars,
      execVars, pwVars>>
restOfLook ==
    <<recVars, midVars, muxVars, tearVars, resVars, ehVars, newVars, runVars, txVars,
      execVars, pwVars>>
restOfRes ==
    <<recVars, midVars, muxVars, tearVars, lookVars, ehVars, newVars, runVars, txVars,
      execVars, pwVars>>
restOfEh ==
    <<recVars, midVars, muxVars, tearVars, lookVars, resVars, newVars, runVars, txVars,
      execVars, pwVars>>
restOfNew ==
    <<recVars, midVars, muxVars, tearVars, lookVars, resVars, ehVars, runVars, txVars,
      execVars, pwVars>>
restOfRun ==
    <<recVars, midVars, muxVars, tearVars, lookVars, resVars, ehVars, newVars, txVars,
      execVars, pwVars>>
restOfTx ==
    <<recVars, midVars, muxVars, tearVars, lookVars, resVars, ehVars, newVars, runVars,
      execVars, pwVars>>
restOfExec ==
    <<recVars, midVars, muxVars, tearVars, lookVars, resVars, ehVars, newVars, runVars,
      txVars, pwVars>>
restOfPw ==
    <<recVars, midVars, muxVars, tearVars, lookVars, resVars, ehVars, newVars, runVars,
      txVars, execVars>>

\* ---------------------------------------------------------------- recorder
NilRef == [k |-> "nil", id |-> 0]
BodyRef(q) == [k |-> "body", id |-> q]
RecRef(l) == [k |-> "rec", id |-> l]

\* &LogEntry{} : every field at its zero value.
ZeroLogEntry ==
    [StatusCode |-> 0, RespondedAt |-> 0, RequestedAt |-> 0,
     DiscardReqBody |-> FALSE, DiscardResBody |-> FALSE,
     reqBody |-> 0, resBody |-> 0]

\* _recorderPool.New
NewRecorder == [ResponseWriter |-> 0, req |-> NilRef, log |-> ZeroLogEntry]

\* A response writer nothing was written to; a body nothing was read from.
\* hdr: the codes of the WriteHeader calls it received, body: the bytes it
\* took, calls: the calls it received, in order.
NewWriter == [hdr |-> <<>>, body |-> <<>>, calls |-> <<>>]
NewBody(n) == [data |-> Bytes(0, n), pos |-> 0, closed |-> 0]

\* The memory the recorder's functions read and write.
Mem == [recs |-> recs, bufs |-> bufs, rpool |-> rpool, bpool |-> bpool,
        rw |-> rw, body |-> body, reqBody |-> reqBody, clock |-> clock]

SetMem(s) ==
    /\ recs' = s.recs
    /\ bufs' = s.bufs
    /\ rpool' = s.rpool
    /\ bpool' = s.bpool
    /\ rw' = s.rw
    /\ body' = s.body
    /\ reqBody' = s.reqBody
    /\ clock' = s.clock

\* time.Now().UnixNano(): readings are positive.  The clock counts two
\* instants per arrival: newLogEntryRecorder reads the odd instant
\* (ArrivalTime) and moves the clock past it (Arrive); a commit reads the even
\* instant the clock then stands at (CommitTime), later than every arrival so far.
Arrive(s) == [s EXCEPT !.clock = @ + 2]
ArrivalTime(s) == s.clock + 1
CommitTime(s) == s.clock

\* LogEntry.ReqBody() / LogEntry.ResBody(): the bytes of the buffer.
ReqBody(s, l) == s.bufs[s.recs[l].log.reqBody]
ResBody(s, l) == s.bufs[s.recs[l].log.resBody]

\* _recorderPool.Get() handing out a pooled recorder and leaving it in the pool.
RecorderPoolGetKeeps(s) ==
    IF s.rpool # {}
    THEN {[s |-> s, id |-> i] : i \in s.rpool}
    ELSE {[s |-> [s EXCEPT !.recs = Append(@, NewRecorder)], id |-> Len(s.recs) + 1]}

\* _recorderPool.Get(): a pooled recorder, or a new one when the pool is empty.
RecorderPoolGet(s) ==
    IF s.rpool # {}
    THEN {[s |-> [s EXCEPT !.rpool = @ \ {i}], id |-> i] : i \in s.rpool}
    ELSE {[s |-> [s EXCEPT !.recs = Append(@, NewRecorder)], id |-> Len(s.recs) + 1]}

\* bytebufferpool.Get(): a pooled buffer (reset when it was put), or a new one
\* when the pool is empty.
ByteBufferGet(s) ==
    IF s.bpool # {}
    THEN {[s |-> [s EXCEPT !.bpool = @ \ {i}], id |-> i] : i \in s.bpool}
    ELSE {[s |-> [s EXCEPT !.bufs = Append(@, <<>>)], id |-> Len(s.bufs) + 1]}

\* bytebufferpool.Put(b): b.Reset(), then back into the pool.
ByteBufferPut(s, b) == [s EXCEPT !.bufs[b] = <<>>, !.bpool = @ \cup {b}]

\* newLogEntryRecorder leaving the status and the commit time of the pooled
\* recorder as they are.
newLogEntryRecorderKeepsStatus(s, q) ==
    UNION { UNION { {
        [s |-> [Arrive(g2.s) EXCEPT
                  !.recs[g0.id].req = s.reqBody[q],
                  !.recs[g0.id].ResponseWriter = q,
                  !.recs[g0.id].log.DiscardReqBody = FALSE,
                  !.recs[g0.id].log.DiscardResBody = FALSE,
                  !.recs[g0.id].log.reqBody = g1.id,
                  !.recs[g0.id].log.resBody = g2.id,
                  !.recs[g0.id].log.RequestedAt = ArrivalTime(g2.s)],
         id |-> g0.id] : g2 \in ByteBufferGet(g1.s) } : g1 \in ByteBufferGet(g0.s) }
      : g0 \in RecorderPoolGet(s) }

\* newLogEntryRecorder(w, r) for request q: the memories it can leave, each
\* with the recorder it returns.
newLogEntryRecorder(s, q) ==
    UNION { UNION { {
        [s |-> [Arrive(g2.s) EXCEPT
                  !.recs[g0.id].req = s.reqBody[q],
                  !.recs[g0.id].ResponseWriter = q,
                  !.recs[g0.id].log.StatusCode = 0,
                  !.recs[g0.id].log.RespondedAt = 0,
                  !.recs[g0.id].log.DiscardReqBody = FALSE,
                  !.recs[g0.id].log.DiscardResBody = FALSE,
                  !.recs[g0.id].log.reqBody = g1.id,
                  !.recs[g0.id].log.resBody = g2.id,
                  !.recs[g0.id].log.RequestedAt = ArrivalTime(g2.s)],
         id |-> g0.id] : g2 \in ByteBufferGet(g1.s) } : g1 \in ByteBufferGet(g0.s) }
      : g0 \in RecorderPoolGet(s) }

\* The statements of putLogEntryRecorder(rec), in order: the two buffers go
\* back to the byte-buffer pool,
putBuffers(s, l) ==
    LET s1 == IF s.recs[l].log.reqBody # 0 THEN ByteBufferPut(s, s.recs[l].log.reqBody) ELSE s
    IN  IF s.recs[l].log.resBody # 0 THEN ByteBufferPut(s1, s.recs[l].log.resBody) ELSE s1

\* (clearRefs forgetting the response writer)
clearRefsKeepsWriter(s, l) == [s EXCEPT !.recs[l].req = NilRef]

\* rec.req = nil and rec.ResponseWriter = nil,
clearRefs(s, l) == [s EXCEPT !.recs[l].req = NilRef, !.recs[l].ResponseWriter = 0]

\* and _recorderPool.Put(rec).
RecorderPoolPut(s, l) == [s EXCEPT !.rpool = @ \cup {l}]

\* (putLogEntryRecorder without its last statement: the recorder is cleared
\* and never put back)
putLogEntryRecorderLeaks(s, l) == clearRefs(putBuffers(s, l), l)

putLogEntryRecorder(s, l) == RecorderPoolPut(clearRefs(putBuffers(s, l), l), l)

\* logEntryRecorder.withRequest(r) for request q
withRequest(s, l, q) == [s EXCEPT !.recs[l].req = s.reqBody[q], !.reqBody[q] = RecRef(l)]

\* WriteHeader without its early return: every call commits again.
WriteHeaderRecommits(s, l, code) ==
    [s EXCEPT !.rw[s.recs[l].ResponseWriter].hdr = Append(@, code),
              !.rw[s.recs[l].ResponseWriter].calls = Append(@, "WriteHeader"),
              !.recs[l].log.StatusCode = code,
              !.recs[l].log.RespondedAt = CommitTime(s)]

\* logEntryRecorder.WriteHeader(code)
WriteHeader(s, l, code) ==
    IF s.recs[l].log.RespondedAt > 0
    THEN s
    ELSE [s EXCEPT !.rw[s.recs[l].ResponseWriter].hdr = Append(@, code),
                   !.rw[s.recs[l].ResponseWriter].calls = Append(@, "WriteHeader"),
                   !.recs[l].log.StatusCode = code,
                   !.recs[l].log.RespondedAt = CommitTime(s)]

\* Write forwarding the bytes first and committing the default status after.
WriteForwardsFirst(s, l, b, u) ==
    LET s1 == [s EXCEPT !.rw[s.recs[l].ResponseWriter].body = @ \o SubSeq(b, 1, u.n),
                        !.rw[s.recs[l].ResponseWriter].calls = Append(@, "Write")]
        s2 == IF s.recs[l].log.RespondedAt <= 0 THEN WriteHeader(s1, l, StatusOK) ELSE s1
    IN  IF ~s2.recs[l].log.DiscardReqBody /\ u.err = "nil"
        THEN [s |-> [s2 EXCEPT !.bufs[s2.recs[l].log.resBody] = @ \o SubSeq(b, 1, u.n)],
              n |-> u.n, err |-> "nil"]
        ELSE [s |-> s2, n |-> u.n, err |-> u.err]

\* Write capturing the bytes whatever the underlying Write returned.
WriteCapturesFailed(s, l, b, u) ==
    LET s1 == IF s.recs[l].log.RespondedAt <= 0 THEN WriteHeader(s, l, StatusOK) ELSE s
        s2 == [s1 EXCEPT !.rw[s.recs[l].ResponseWriter].body = @ \o SubSeq(b, 1, u.n),
                         !.rw[s.recs[l].ResponseWriter].calls = Append(@, "Write")]
    IN  IF ~s2.recs[l].log.DiscardReqBody
        THEN [s |-> [s2 EXCEPT !.bufs[s2.recs[l].log.resBody] = @ \o SubSeq(b, 1, u.n)],
              n |-> u.n, err |-> "nil"]
        ELSE [s |-> s2, n |-> u.n, err |-> u.err]

\* logEntryRecorder.Write(b); u is what the underlying ResponseWriter.Write
\* returns: u.n bytes taken, u.err.  The result carries (n, err) as returned.
Write(s, l, b, u) ==
    LET s1 == IF s.recs[l].log.RespondedAt <= 0 THEN WriteHeader(s, l, StatusOK) ELSE s
        s2 == [s1 EXCEPT !.rw[s.recs[l].ResponseWriter].body = @ \o SubSeq(b, 1, u.n),
                         !.rw[s.recs[l].ResponseWriter].calls = Append(@, "Write")]
    IN  IF ~s2.recs[l].log.DiscardReqBody /\ u.err = "nil"
        THEN [s |-> [s2 EXCEPT !.bufs[s2.recs[l].log.resBody] = @ \o SubSeq(b, 1, u.n)],
              n |-> u.n, err |-> "nil"]
        ELSE [s |-> s2, n |-> u.n, err |-> u.err]

\* What ResponseWriter.Write(b) may return: all of b taken, or an error after
\* fewer bytes.
WriteOutcomes(b) ==
    {[n |-> Len(b), err |-> "nil"]}
    \cup {[n |-> n, err |-> "errWrite"] : n \in 0 .. Len(b) - 1}

\* What the original body's Read(p), len(p) = k, may return (io.Reader): up to
\* k of the remaining bytes, with no error, with an error, or - when they are
\* the last ones - with io.EOF.
BodyReadOutcomes(bd, k) ==
    LET rem == Len(bd.data) - bd.pos
    IN  {[n |-> n, err |-> e] : n \in 0 .. Min(k, rem), e \in {"nil", "errRead"}}
        \cup (IF rem <= k THEN {[n |-> rem, err |-> "EOF"]} ELSE {})

\* Read that records whatever DiscardReqBody says.
ReadRecordsAlways(s, l, u) ==
    LET bd == s.body[s.recs[l].req.id]
        p  == SubSeq(bd.data, bd.pos + 1, bd.pos + u.n)
        s1 == [s EXCEPT !.body[s.recs[l].req.id].pos = @ + u.n]
    IN  IF u.n > 0
        THEN [s |-> [s1 EXCEPT !.bufs[s1.recs[l].log.reqBody] = @ \o p],
              n |-> Len(p), err |-> "nil", p |-> p]
        ELSE [s |-> s1, n |-> u.n, err |-> u.err, p |-> p]

\* logEntryRecorder.Read(p); u is what l.req.Read(p) returns, the bytes land
\* in p[:u.n].  The result carries (n, err) as returned and p[:n].
Read(s, l, u) ==
    LET bd == s.body[s.recs[l].req.id]
        p  == SubSeq(bd.data, bd.pos + 1, bd.pos + u.n)
        s1 == [s EXCEPT !.body[s.recs[l].req.id].pos = @ + u.n]
    IN  IF ~s1.recs[l].log.DiscardReqBody /\ u.n > 0
        THEN [s |-> [s1 EXCEPT !.bufs[s1.recs[l].log.reqBody] = @ \o p],
              n |-> Len(p), err |-> "nil", p |-> p]
        ELSE [s |-> s1, n |-> u.n, err |-> u.err, p |-> p]

\* --------------------------------------------------------- recorder actions
NoObs == [op |-> "none", b |-> <<>>, un |-> 0, uerr |-> "nil", n |-> 0, err |-> "nil",
          flag |-> FALSE]
NoSent == [bytes |-> <<>>, count |-> 0, resDiscarded |-> FALSE, reqDiscarded |-> FALSE,
           read |-> FALSE]

\* No request yet; S are the requests that can be in flight at once.
RecInitWith(S) ==
    /\ slots = S
    /\ recs = <<>>
    /\ bufs = <<>>
    /\ rpool = {}
    /\ bpool = {}
    /\ rw = [q \in slots |-> NewWriter]
    /\ body = [q \in slots |-> NewBody(0)]
    /\ reqBody = [q \in slots |-> NilRef]
    /\ clock = 0
    /\ cur = [q \in slots |-> 0]
    /\ served = 0
    /\ ops = [q \in slots |-> 0]
    /\ obs = [q \in slots |-> NoObs]
    /\ sent = [q \in slots |-> NoSent]

RecInit == RecInitWith({1})

\* LogEntryRecorder, up to the call of next.ServeHTTP: request q arrives with
\* a fresh body and response writer, and a recorder is checked out for it.
EnterWith(q, n) ==
    /\ cur[q] = 0
    /\ served + Cardinality({x \in slots : cur[x] # 0}) < MaxRequests
    /\ LET s0 == [Mem EXCEPT !.rw[q] = NewWriter,
                             !.body[q] = NewBody(n),
                             !.reqBody[q] = BodyRef(q)]
       IN  \E g \in newLogEntryRecorder(s0, q) :
              /\ SetMem(withRequest(g.s, g.id, q))
              /\ cur' = [cur EXCEPT ![q] = g.id]
    /\ ops' = [ops EXCEPT ![q] = 0]
    /\ obs' = [obs EXCEPT ![q] = NoObs]
    /\ sent' = [sent EXCEPT ![q] = NoSent]
    /\ UNCHANGED <<slots, served>>

\* A request with a body of any length up to MaxBody arrives.
Enter(q) == \E n \in 0 .. MaxBody : EnterWith(q, n)

\* The handler of q may make one more call.
Running(q) == cur[q] # 0 /\ ops[q] < MaxOps

\* The handler reads the request body: r.Body.Read(p) with len(p) = k.
HRead(q) ==
    /\ Running(q)
    /\ reqBody[q] = RecRef(cur[q])
    /\ \E k \in 1 .. MaxChunk : \E u \in BodyReadOutcomes(body[q], k) :
         LET r == Read(Mem, cur[q], u)
         IN  /\ SetMem(r.s)
             /\ obs' = [obs EXCEPT ![q] =
                          [op |-> "Read", b |-> r.p, un |-> u.n, uerr |-> u.err,
                           n |-> r.n, err |-> r.err,
                           flag |-> recs[cur[q]].log.DiscardReqBody]]
             /\ sent' = [sent EXCEPT
                           ![q].read = TRUE,
                           ![q].reqDiscarded = @ \/ (recs[cur[q]].log.DiscardReqBody /\ u.n > 0)]
    /\ ops' = [ops EXCEPT ![q] = @ + 1]
    /\ UNCHANGED <<slots, cur, served>>

\* The handler writes the status: w.WriteHeader(code).
HWriteHeader(q) ==
    /\ Running(q)
    /\ \E code \in Codes :
         /\ SetMem(WriteHeader(Mem, cur[q], code))
         /\ obs' = [obs EXCEPT ![q] = [NoObs EXCEPT !.op = "WriteHeader", !.n = code]]
    /\ ops' = [ops EXCEPT ![q] = @ + 1]
    /\ UNCHANGED <<slots, cur, served, sent>>

\* The handler writes body bytes: w.Write(b), b the next 1 .. MaxChunk bytes
\* of its output.
HWriteWith(q, m, u) ==
    /\ Running(q)
    /\ LET b == Bytes(sent[q].count, m)
           r == Write(Mem, cur[q], b, u)
       IN  /\ SetMem(r.s)
           /\ obs' = [obs EXCEPT ![q] =
                        [op |-> "Write", b |-> b, un |-> u.n, uerr |-> u.err,
                         n |-> r.n, err |-> r.err,
                         flag |-> recs[cur[q]].log.DiscardResBody]]
           /\ sent' = [sent EXCEPT
                         ![q].bytes = IF r.err = "nil" THEN @ \o b ELSE @,
                         ![q].count = @ + m,
                         ![q].resDiscarded = @ \/ recs[cur[q]].log.DiscardResBody]
    /\ ops' = [ops EXCEPT ![q] = @ + 1]
    /\ UNCHANGED <<slots, cur, served>>

HWrite(q) ==
    \E m \in 1 .. MaxChunk :
        \E u \in WriteOutcomes(Bytes(sent[q].count, m)) : HWriteWith(q, m, u)

\* The handler sets LogEntry.DiscardReqBody through GetLogEntry(w).
HSetDiscardReq(q) ==
    /\ Running(q)
    /\ recs' = [recs EXCEPT ![cur[q]].log.DiscardReqBody = ~@]
    /\ obs' = [obs EXCEPT ![q] = [NoObs EXCEPT !.op = "SetDiscardReq"]]
    /\ ops' = [ops EXCEPT ![q] = @ + 1]
    /\ UNCHANGED <<slots, bufs, rpool, bpool, rw, body, reqBody, clock, cur, served, sent>>

\* The handler sets LogEntry.DiscardResBody through GetLogEntry(w).
HSetDiscardRes(q) ==
    /\ Running(q)
    /\ recs' = [recs EXCEPT ![cur[q]].log.DiscardResBody = ~@]
    /\ obs' = [obs EXCEPT ![q] = [NoObs EXCEPT !.op = "SetDiscardRes"]]
    /\ ops' = [ops EXCEPT ![q] = @ + 1]
    /\ UNCHANGED <<slots, bufs, rpool, bpool, rw, body, reqBody, clock, cur, served, sent>>

\* The handler returns; the deferred putLogEntryRecorder(rec) runs.  The
\* request, its body and its response writer are gone after that.
Exit(q) ==
    /\ cur[q] # 0
    /\ SetMem([putLogEntryRecorder(Mem, cur[q]) EXCEPT !.rw[q] = NewWriter,
                                                       !.body[q] = NewBody(0)])
    /\ cur' = [cur EXCEPT ![q] = 0]
    /\ served' = served + 1
    /\ ops' = [ops EXCEPT ![q] = 0]
    /\ obs' = [obs EXCEPT ![q] = [NoObs EXCEPT !.op = "Exit"]]
    /\ sent' = [sent EXCEPT ![q] = NoSent]
    /\ UNCHANGED slots

\* The handler of q panics: the deferred putLogEntryRecorder(rec) runs while
\* the panic unwinds LogEntryRecorder.
ExitPanic(q) ==
    /\ cur[q] # 0
    /\ SetMem([putLogEntryRecorder(Mem, cur[q]) EXCEPT !.rw[q] = NewWriter,
                                                       !.body[q] = NewBody(0)])
    /\ cur' = [cur EXCEPT ![q] = 0]
    /\ served' = served + 1
    /\ ops' = [ops EXCEPT ![q] = 0]
    /\ obs' = [obs EXCEPT ![q] = [NoObs EXCEPT !.op = "Panic"]]
    /\ sent' = [sent EXCEPT ![q] = NoSent]
    /\ UNCHANGED slots

\* The same *http.Request is served again (recorder.ServeHTTP(w, r) in a loop
\* over one r): r.Body is what withRequest left there the last time.
EnterAgain(q) ==
    /\ cur[q] = 0
    /\ reqBody[q] # NilRef
    /\ served + Cardinality({x \in slots : cur[x] # 0}) <= MaxRequests
    /\ LET s0 == [Mem EXCEPT !.rw[q] = NewWriter]
       IN  \E g \in newLogEntryRecorder(s0, q) :
              /\ SetMem(withRequest(g.s, g.id, q))
              /\ cur' = [cur EXCEPT ![q] = g.id]
    /\ ops' = [ops EXCEPT ![q] = 0]
    /\ obs' = [obs EXCEPT ![q] = [NoObs EXCEPT !.op = "EnterAgain"]]
    /\ sent' = [sent EXCEPT ![q] = NoSent]
    /\ UNCHANGED <<slots, served>>


\* What the original body's Close() may return (io.Closer).
BodyCloseOutcomes == {"nil", "errClose"}

\* Close that drops the result of the original body's Close.
CloseDropsResult(s, l, u) ==
    IF s.recs[l].req # NilRef
    THEN [s |-> [s EXCEPT !.body[s.recs[l].req.id].closed = @ + 1], err |-> "nil"]
    ELSE [s |-> s, err |-> "nil"]

\* logEntryRecorder.Close(); u is what l.req.Close() returns.
Close(s, l, u) ==
    IF s.recs[l].req # NilRef
    THEN [s |-> [s EXCEPT !.body[s.recs[l].req.id].closed = @ + 1], err |-> u]
    ELSE [s |-> s, err |-> "nil"]

\* A request whose Body is nil arrives (a request built without a body):
\* withRequest registers nil as the original body.
EnterNoBody(q) ==
    /\ cur[q] = 0
    /\ served + Cardinality({x \in slots : cur[x] # 0}) < MaxRequests
    /\ LET s0 == [Mem EXCEPT !.rw[q] = NewWriter,
                             !.body[q] = NewBody(0),
                             !.reqBody[q] = NilRef]
       IN  \E g \in newLogEntryRecorder(s0, q) :
              /\ SetMem(withRequest(g.s, g.id, q))
              /\ cur' = [cur EXCEPT ![q] = g.id]
    /\ ops' = [ops EXCEPT ![q] = 0]
    /\ obs' = [obs EXCEPT ![q] = NoObs]
    /\ sent' = [sent EXCEPT ![q] = NoSent]
    /\ UNCHANGED <<slots, served>>

\* The handler closes the request body: r.Body.Close().
HClose(q) ==
    /\ Running(q)
    /\ reqBody[q] = RecRef(cur[q])
    /\ \E u \in BodyCloseOutcomes :
         LET r == Close(Mem, cur[q], u)
         IN  /\ SetMem(r.s)
             /\ obs' = [obs EXCEPT ![q] =
                          [NoObs EXCEPT !.op = "Close", !.uerr = u, !.err = r.err]]
    /\ ops' = [ops EXCEPT ![q] = @ + 1]
    /\ UNCHANGED <<slots, cur, served, sent>>

\* ------------------------------------------------------------- middleware
\* A handler value is the sequence of its layers, outermost first: the
\* closures of the middlewares wrapped around it, then the handler itself.
\* A middleware has the shape of the repository's middlewares: a step before
\* the call of next, a deferred step after it, the result of next returned.
Mid(id) == [t |-> "mid", id |-> id]
Base(id) == [t |-> "h", id |-> id]

\* MuxMiddleware.Then(h) / NetMiddleware.Then(h): m(h).  A middleware wraps h
\* in its closure; the identity middleware returns h itself.
Then(m, h) == IF m.t = "identity" THEN h ELSE <<m>> \o h

\* reduceMuxMiddleware with its loop running upwards.
RECURSIVE MuxLoopUp(_, _, _)
MuxLoopUp(middlewares, i, next) ==
    IF i <= Len(middlewares)
    THEN MuxLoopUp(middlewares, i + 1, Then(middlewares[i], next))
    ELSE next

reduceMuxMiddlewareUp(middlewares, next) == MuxLoopUp(middlewares, 1, next)

\* reduceMuxMiddleware(middlewares)(next): the loop from the last index down.
RECURSIVE MuxLoop(_, _, _)
MuxLoop(middlewares, i, next) ==
    IF i >= 1
    THEN MuxLoop(middlewares, i - 1, Then(middlewares[i], next))
    ELSE next

reduceMuxMiddleware(middlewares, next) == MuxLoop(middlewares, Len(middlewares), next)

\* reduceNetMiddleware(middlewares)(next)
RECURSIVE NetLoop(_, _, _)
NetLoop(middlewares, i, next) ==
    IF i >= 1
    THEN NetLoop(middlewares, i - 1, Then(middlewares[i], next))
    ELSE next

reduceNetMiddleware(middlewares, next) == NetLoop(middlewares, Len(middlewares), next)

\* The call h.ServeHTTP(w, r) of a handler value h: rest are the layers not
\* yet entered, stack the middlewares entered and not yet left, trace the
\* side effects so far, ret the error returned by the innermost call that
\* has returned, panic whether a panic is unwinding the stack.
Pre(id) == [ev |-> "pre", id |-> id]
Post(id) == [ev |-> "post", id |-> id]
Ran(id) == [ev |-> "h", id |-> id]

NoExec == [rest |-> <<>>, stack |-> <<>>, trace |-> <<>>, ret |-> "none", panic |-> FALSE]
ExecStart(h) == [NoExec EXCEPT !.rest = h]
ExecReturned(e) == e.rest = <<>> /\ e.stack = <<>>

\* A middleware is entered: its first step runs, then it calls next.
ExecEnter(e) ==
    [e EXCEPT !.rest = Tail(@),
              !.stack = Append(@, Head(e.rest)),
              !.trace = Append(@, Pre(Head(e.rest).id))]

\* The handler runs and returns r, or panics (r = "panic").
ExecHandler(e, r) ==
    [e EXCEPT !.rest = <<>>,
              !.trace = Append(@, Ran(Head(e.rest).id)),
              !.ret = IF r = "panic" THEN @ ELSE r,
              !.panic = (r = "panic")]

\* The middleware just entered panics instead of calling next.
ExecPanic(e) == [e EXCEPT !.rest = <<>>, !.panic = TRUE]

\* The innermost middleware still running is left: its deferred step runs,
\* on a return as on a panic, and what next returned is passed on.
ExecLeave(e) ==
    [e EXCEPT !.stack = SubSeq(@, 1, Len(@) - 1),
              !.trace = Append(@, Post(e.stack[Len(e.stack)].id))]

\* ------------------------------------------------------ middleware actions
RECURSIVE SeqsUpTo(_, _)
SeqsUpTo(S, n) ==
    IF n = 0 THEN {<<>>}
    ELSE LET shorter == SeqsUpTo(S, n - 1)
         IN  shorter \cup {Append(q, x) : q \in {p \in shorter : Len(p) = n - 1}, x \in S}

MidIdle ==
    /\ mKind = "none"
    /\ mMids = <<>>
    /\ mBase = [id |-> 0, r |-> "none"]
    /\ mPc = "idle"
    /\ mChain = <<>>
    /\ mExec = NoExec
    /\ mClo = "none"
    /\ mCopy = <<>>
    /\ mAtReduce = <<>>

\* A caller holds a slice of middlewares, drawn from MaxMids middlewares, and
\* a handler; a net handler returns nothing, a mux handler an error or nil.
MidInit ==
    /\ mKind \in {"mux", "net"}
    /\ mMids \in SeqsUpTo({Mid(i) : i \in 1 .. MaxMids}, MaxMids)
    /\ mBase \in {[id |-> 0, r |-> r] :
                    r \in IF mKind = "mux" THEN {"nil", "err", "panic"} ELSE {"none", "panic"}}
    /\ mPc = "start"
    /\ mChain = <<>>
    /\ mExec = NoExec
    /\ mClo = "none"
    /\ mCopy = <<>>
    /\ mAtReduce = <<>>

\* mid := ReduceMuxMiddleware(m1, ..., mn) / ReduceNetMiddleware(m1, ..., mn)
\* Called with the slice spread, the variadic parameter is the caller's
\* slice itself; called with listed arguments, a slice made for the call.
\* The closure returned keeps the parameter.
MReduce ==
    /\ mPc = "start"
    /\ \E spread \in BOOLEAN :
         /\ mClo' = IF spread THEN "caller" ELSE "copy"
         /\ mCopy' = IF spread THEN <<>> ELSE mMids
    /\ mAtReduce' = mMids
    /\ mPc' = "reduced"
    /\ UNCHANGED <<mKind, mMids, mBase, mChain, mExec>>

\* The slice the closure reads when it is called.
Captured == IF mClo = "caller" THEN mMids ELSE mCopy

\* The caller stores another middleware in its slice, once, after Reduce has
\* returned: mids[i] = m.
MModify ==
    /\ mPc = "reduced"
    /\ mMids = mAtReduce
    /\ \E i \in 1 .. Len(mMids), m \in {Mid(k) : k \in 1 .. MaxMids} :
         /\ m # mMids[i]
         /\ mMids' = [mMids EXCEPT ![i] = m]
    /\ UNCHANGED <<mKind, mBase, mPc, mChain, mExec, mClo, mCopy, mAtReduce>>

\* h' := mid.Then(h)
MThen ==
    /\ mPc = "reduced"
    /\ mChain' = IF mKind = "mux"
                 THEN reduceMuxMiddleware(Captured, <<Base(mBase.id)>>)
                 ELSE reduceNetMiddleware(Captured, <<Base(mBase.id)>>)
    /\ mPc' = "then"
    /\ UNCHANGED <<mKind, mMids, mBase, mExec, mClo, mCopy, mAtReduce>>

\* h'.ServeHTTP(w, r) is called.
MServe ==
    /\ mPc = "then"
    /\ mExec' = ExecStart(mChain)
    /\ mPc' = "serving"
    /\ UNCHANGED <<mKind, mMids, mBase, mChain, mClo, mCopy, mAtReduce>>

\* The next layer is entered: a middleware, or the handler itself.
MCall ==
    /\ mPc = "serving"
    /\ mExec.rest # <<>>
    /\ mExec' = IF Head(mExec.rest).t = "mid"
                THEN ExecEnter(mExec)
                ELSE ExecHandler(mExec, mBase.r)
    /\ UNCHANGED <<mKind, mMids, mBase, mPc, mChain, mClo, mCopy, mAtReduce>>

\* The innermost middleware returns (or is unwound by the panic).
MReturn ==
    /\ mPc = "serving"
    /\ mExec.rest = <<>>
    /\ mExec.stack # <<>>
    /\ mExec' = ExecLeave(mExec)
    /\ UNCHANGED <<mKind, mMids, mBase, mPc, mChain, mClo, mCopy, mAtReduce>>

\* The outermost call has returned.
MDone ==
    /\ mPc = "serving"
    /\ ExecReturned(mExec)
    /\ mPc' = "done"
    /\ UNCHANGED <<mKind, mMids, mBase, mChain, mExec, mClo, mCopy, mAtReduce>>

\* ------------------------------------------------------------------ router
\* Status codes written by the router, its default handlers and the routes.
StatusCreated == 201
StatusBadRequest == 400
StatusMovedPermanently == 301
StatusTemporaryRedirect == 307
StatusNotFound == 404
StatusMethodNotAllowed == 405
StatusInternalServerError == 500
StatusConflict == 409

\* Methods routes are registered for, methods and paths of requests.  Every
\* route is registered on RoutePath; a request asks for it, for it with a
\* trailing slash, for it in another case, or for something else.
Methods == {"GET", "POST"}
ReqMethods == Methods \cup {"OPTIONS"}
RoutePath == "/a"
ReqPaths == {"/a", "/a/", "/A", "/x"}

\* The middleware Opts.Default installs, func(h Handler) Handler { return h },
\* the one of a mux that has none yet, and the one a caller passes.
Identity == [t |-> "identity", id |-> <<"identity", 0>>]
NoMiddleware == [t |-> "nil", id |-> <<"nil", 0>>]
Global == Mid(<<"global", 0>>)

\* The handler of the route registered for method, and the k-th middleware
\* listed with it.
RouteHandler(method) == Base(<<method, 0>>)
RouteMid(method, k) == Mid(<<method, k>>)

\* The MuxOption values Opts can make.
Flags == {"RedirectTrailingSlash", "RedirectFixedPath", "HandleMethodNotAllowed",
          "HandleOPTIONS"}
Hooks == {"GlobalOPTIONS", "NotFound", "MethodNotAllowed", "PanicHandler",
          "LastResortErrorHandler"}
MuxOption ==
    {[opt |-> o, val |-> v] : o \in Flags, v \in {"true", "false"}}
    \cup {[opt |-> o, val |-> v] : o \in Hooks, v \in {"custom", "nil"}}
    \cup {[opt |-> "Middleware", val |-> v] : v \in {"global", "nil"}}

\* MuxOption.applyTo(mux)
applyTo(o, mux) ==
    IF o.opt = "Middleware"
    THEN [mux EXCEPT !.midl = IF o.val = "nil" THEN NoMiddleware ELSE Global]
    ELSE [mux EXCEPT !.conf[o.opt] = o.val]

RECURSIVE applyAll(_, _, _)
applyAll(opts, i, mux) ==
    IF i > Len(opts) THEN mux ELSE applyAll(opts, i + 1, applyTo(opts[i], mux))

\* Default setting the default handlers whatever is there.
DefaultOverwrites(mux) ==
    LET defaults ==
            <<[opt |-> "LastResortErrorHandler", val |-> "default"],
              [opt |-> "NotFound", val |-> "default"],
              [opt |-> "MethodNotAllowed", val |-> "default"],
              [opt |-> "PanicHandler", val |-> "default"]>>
        m1 == applyAll(defaults, 1, mux)
    IN  IF m1.midl = NoMiddleware THEN [m1 EXCEPT !.midl = Identity] ELSE m1

\* Default leaving the PanicHandler as it finds it.
DefaultWithoutPanicHandler(mux) ==
    LET defaults ==
            (IF mux.conf.LastResortErrorHandler = "nil"
             THEN <<[opt |-> "LastResortErrorHandler", val |-> "default"]>> ELSE <<>>)
            \o (IF mux.conf.NotFound = "nil"
                THEN <<[opt |-> "NotFound", val |-> "default"]>> ELSE <<>>)
            \o (IF mux.conf.MethodNotAllowed = "nil"
                THEN <<[opt |-> "MethodNotAllowed", val |-> "default"]>> ELSE <<>>)
        m1 == applyAll(defaults, 1, mux)
    IN  IF m1.midl = NoMiddleware THEN [m1 EXCEPT !.midl = Identity] ELSE m1

\* Opts.Default(): the options for what is still unset, applied in order.
Default(mux) ==
    LET defaults ==
            (IF mux.conf.LastResortErrorHandler = "nil"
             THEN <<[opt |-> "LastResortErrorHandler", val |-> "default"]>> ELSE <<>>)
            \o (IF mux.conf.NotFound = "nil"
                THEN <<[opt |-> "NotFound", val |-> "default"]>> ELSE <<>>)
            \o (IF mux.conf.MethodNotAllowed = "nil"
                THEN <<[opt |-> "MethodNotAllowed", val |-> "default"]>> ELSE <<>>)
            \o (IF mux.conf.PanicHandler = "nil"
                THEN <<[opt |-> "PanicHandler", val |-> "default"]>> ELSE <<>>)
        m1 == applyAll(defaults, 1, mux)
    IN  IF m1.midl = NoMiddleware THEN [m1 EXCEPT !.midl = Identity] ELSE m1

\* NewServeMux(opts...)
NewServeMux(opts) ==
    LET mux0 == [conf |-> [RedirectTrailingSlash |-> "true",
                           RedirectFixedPath |-> "true",
                           HandleMethodNotAllowed |-> "true",
                           HandleOPTIONS |-> "true",
                           GlobalOPTIONS |-> "nil",
                           NotFound |-> "nil",
                           MethodNotAllowed |-> "nil",
                           PanicHandler |-> "nil",
                           LastResortErrorHandler |-> "nil"],
                 midl |-> NoMiddleware,
                 core |-> [trees |-> [m \in Methods |-> <<>>]]]
        mux == Default(applyAll(opts, 1, mux0))
    IN  [mux EXCEPT !.core =
            [RedirectTrailingSlash |-> mux.conf.RedirectTrailingSlash,
             RedirectFixedPath |-> mux.conf.RedirectFixedPath,
             HandleMethodNotAllowed |-> mux.conf.HandleMethodNotAllowed,
             HandleOPTIONS |-> mux.conf.HandleOPTIONS,
             GlobalOPTIONS |-> mux.conf.GlobalOPTIONS,
             NotFound |-> mux.conf.NotFound,
             MethodNotAllowed |-> mux.conf.MethodNotAllowed,
             PanicHandler |-> mux.conf.PanicHandler,
             trees |-> [m \in Methods |-> <<>>]]]

NewIdle ==
    /\ nOpts = <<>>
    /\ nMux = NewServeMux(<<>>)
    /\ nPc = "off"

\* A caller has a list of up to MaxOpts options.
NewInit ==
    /\ nOpts \in SeqsUpTo(MuxOption, MaxOpts)
    /\ nMux = NewServeMux(<<>>)
    /\ nPc = "start"

\* mux := NewServeMux(opts...)
NNew ==
    /\ nPc = "start"
    /\ nMux' = NewServeMux(nOpts)
    /\ nPc' = "made"
    /\ UNCHANGED nOpts

\* ------------------------------------------------------------------ runner
\* The errors of this part and the next: a returned error is its message and
\* the set of errors errors.Is finds in it.
NoError == [msg |-> "nil", wraps |-> {}]
Leaf(e) == [msg |-> e, wraps |-> {e}]

\* fmt.Errorf(msg + ": %w", err)
Errorf(msg, err) == [msg |-> msg, wraps |-> err.wraps]

\* errors.Join(a, b)
Join(a, b) == [msg |-> "join", wraps |-> a.wraps \cup b.wraps]

\* RunOpts.Default(): the wait timeout is 5 seconds unless one above zero was set.
DefaultWaitTimeout == 5
RunDefault(waitTimeout) == IF waitTimeout <= 0 THEN DefaultWaitTimeout ELSE waitTimeout

\* The wait timeouts a caller sets: none (the zero value), a negative one, 10s.
WaitTimeouts == {-1, 0, 10}

\* What the wrapped server's methods may return.
ListenOutcomes == {"ErrServerClosed", "errListen", "nil"}
ShutdownOutcomes == {"nil", "DeadlineExceeded", "errShutdown"}
CloseOutcomes == {"nil", "errClose"}

\* An entry of gLog: a call of the wrapped server, its return, the delivery
\* of a signal to the channel ("notify") or its receipt by the runner
\* ("signal"); v is the error returned, d the deadline of the context passed
\* (0: none).
Ev(ev, v, d) == [ev |-> ev, v |-> v, d |-> d]

\* A context.Background() passed as it is.
WithoutTimeout(d) == 0

\* context.WithTimeout(context.Background(), d), as the time left to its deadline.
WithTimeout(d) == d

\* Forcing the close after any failure of Shutdown.
ForceCloseOnAnyError(err) == err # "nil"

\* errors.Is(err, context.DeadlineExceeded)
ForceClose(err) == err = "DeadlineExceeded"

RunIdle ==
    /\ gWait = 0
    /\ gPc = "off"
    /\ gSrv = "none"
    /\ gSigCh = 0
    /\ gSigs = 0
    /\ gErrCh = <<>>
    /\ gLog = <<>>
    /\ gRet = NoError

\* NewGracefulRunner(server, opts...)
RunInit ==
    /\ gWait \in {RunDefault(d) : d \in WaitTimeouts}
    /\ gPc = "start"
    /\ gSrv = "none"
    /\ gSigCh = 0
    /\ gSigs = 0
    /\ gErrCh = <<>>
    /\ gLog = <<>>
    /\ gRet = NoError

\* A signal is delivered to the process: signal.Notify puts it in the
\* channel unless the buffer is full.
GSignal ==
    /\ gPc # "off"
    /\ gSigs < MaxSignals
    /\ gSigs' = gSigs + 1
    /\ gSigCh' = 1
    /\ gLog' = Append(gLog, Ev("notify", "", 0))
    /\ UNCHANGED <<gWait, gPc, gSrv, gErrCh, gRet>>

\* ListenAndServe up to the select: the channels are made, the goroutine is
\* started.
GStart ==
    /\ gPc = "start"
    /\ gPc' = "select"
    /\ gSrv' = "spawned"
    /\ UNCHANGED <<gWait, gSigCh, gSigs, gErrCh, gLog, gRet>>

\* The goroutine calls s.Runner.ListenAndServe().
GListen ==
    /\ gSrv = "spawned"
    /\ gSrv' = "listening"
    /\ gLog' = Append(gLog, Ev("ListenAndServe", "", 0))
    /\ UNCHANGED <<gWait, gPc, gSigCh, gSigs, gErrCh, gRet>>

\* The server's ListenAndServe returns err: http.ErrServerClosed goes to
\* shutdownCompleted (unbuffered: the goroutine waits for the receiver), any
\* other error to serverErr (buffered).
GListenReturn ==
    /\ gSrv = "listening"
    /\ \E err \in ListenOutcomes :
         /\ gLog' = Append(gLog, Ev("ListenAndServe.ret", err, 0))
         /\ IF err = "ErrServerClosed"
            THEN gSrv' = "sending" /\ UNCHANGED gErrCh
            ELSE gSrv' = "done" /\ gErrCh' = Append(gErrCh, err)
    /\ UNCHANGED <<gWait, gPc, gSigCh, gSigs, gRet>>

\* select, case sig := <-s.signalListener
GSelectSignal ==
    /\ gPc = "select"
    /\ gSigCh > 0
    /\ gSigCh' = gSigCh - 1
    /\ gPc' = "signalled"
    /\ gLog' = Append(gLog, Ev("signal", "", 0))
    /\ UNCHANGED <<gWait, gSrv, gSigs, gErrCh, gRet>>

\* select, case err := <-serverErr
GSelectErr ==
    /\ gPc = "select"
    /\ gErrCh # <<>>
    /\ gErrCh' = Tail(gErrCh)
    /\ gRet' = Errorf("server failed to start",
                      IF Head(gErrCh) = "nil" THEN NoError ELSE Leaf(Head(gErrCh)))
    /\ gPc' = "returned"
    /\ UNCHANGED <<gWait, gSrv, gSigCh, gSigs, gLog>>

\* err := s.Runner.Shutdown(ctx), the call
GShutdown ==
    /\ gPc = "signalled"
    /\ gPc' = "inShutdown"
    /\ gLog' = Append(gLog, Ev("Shutdown", "", WithTimeout(gWait)))
    /\ UNCHANGED <<gWait, gSrv, gSigCh, gSigs, gErrCh, gRet>>

\* Shutdown returns err.
GShutdownReturn ==
    /\ gPc = "inShutdown"
    /\ \E err \in ShutdownOutcomes :
         /\ gLog' = Append(gLog, Ev("Shutdown.ret", err, 0))
         /\ IF ForceClose(err)
            THEN gPc' = "forcing" /\ UNCHANGED gRet
            ELSE IF err # "nil"
            THEN gPc' = "returned" /\ gRet' = Errorf("shutdown failed", Leaf(err))
            ELSE gPc' = "waiting" /\ UNCHANGED gRet
    /\ UNCHANGED <<gWait, gSrv, gSigCh, gSigs, gErrCh>>

\* closeErr := s.Runner.Close(), the call
GClose ==
    /\ gPc = "forcing"
    /\ gPc' = "inClose"
    /\ gLog' = Append(gLog, Ev("Close", "", 0))
    /\ UNCHANGED <<gWait, gSrv, gSigCh, gSigs, gErrCh, gRet>>

\* Close returns closeErr.
GCloseReturn ==
    /\ gPc = "inClose"
    /\ \E closeErr \in CloseOutcomes :
         /\ gLog' = Append(gLog, Ev("Close.ret", closeErr, 0))
         /\ gRet' = IF closeErr # "nil"
                    THEN Errorf("deadline exceeded, force shutdown failed", Leaf(closeErr))
                    ELSE NoError
    /\ gPc' = "returned"
    /\ UNCHANGED <<gWait, gSrv, gSigCh, gSigs, gErrCh>>

\* <-shutdownCompleted meets the goroutine's send.
GCompleted ==
    /\ gPc = "waiting"
    /\ gSrv = "sending"
    /\ gSrv' = "done"
    /\ gPc' = "returned"
    /\ gRet' = NoError
    /\ UNCHANGED <<gWait, gSigCh, gSigs, gErrCh, gLog>>


\* ------------------------------------------------------------- transaction
\* What an Atomic does: it returns nil or its error, or panics, and returns
\* the context it got or one derived from it.
AtomicKinds ==
    {[out |-> o, ctx |-> c] : o \in {"nil", "err", "panic"}, c \in {"same", "derived"}}

\* The error of transactions[i].
AtomicErr(i) ==
    CASE i = 1 -> "errAtomic1"
      [] i = 2 -> "errAtomic2"
      [] i = 3 -> "errAtomic3"
      [] OTHER -> "errAtomic4"

\* transactions[i].Exec(ctx, tx) for an Atomic that returns: a context is the
\* sequence of the Atomics that derived it from the caller's.
Exec(a, i, ctx) ==
    [ctx |-> IF a.ctx = "derived" THEN Append(ctx, i) ELSE ctx,
     err |-> IF a.out = "err" THEN AtomicErr(i) ELSE "nil"]

\* ctx, err := transactions[i].Exec(ctx, tx): the loop keeps its own ctx.
Shadowed(ctx, ret) == ctx

\* ctx, err = transactions[i].Exec(ctx, tx)
Assigned(ctx, ret) == ret.ctx

\* An entry of tLog: the call, the index of the Atomic, the context passed,
\* the error returned.
TEv(ev, i, ctx, err) == [ev |-> ev, i |-> i, ctx |-> ctx, err |-> err]

TxIdle ==
    /\ tAtoms = <<>>
    /\ tBegin = "nil"
    /\ tPc = "off"
    /\ tI = 0
    /\ tCtx = <<>>
    /\ tLog = <<>>
    /\ tRet = NoError

\* ExecTransaction(ctx, db, transactions...)
TxInit ==
    /\ tAtoms \in SeqsUpTo(AtomicKinds, MaxAtomics)
    /\ tBegin \in {"nil", "errBegin"}
    /\ tPc = "start"
    /\ tI = 0
    /\ tCtx = <<>>
    /\ tLog = <<>>
    /\ tRet = NoError

\* tx, err := db.BeginTxx(ctx, nil)
TBegin ==
    /\ tPc = "start"
    /\ tLog' = Append(tLog, TEv("BeginTxx", 0, tCtx, tBegin))
    /\ IF tBegin # "nil"
       THEN /\ tRet' = Errorf("begin transaction", Leaf(tBegin))
            /\ tPc' = "returned"
            /\ UNCHANGED tI
       ELSE /\ tPc' = "loop"
            /\ tI' = 1
            /\ UNCHANGED tRet
    /\ UNCHANGED <<tAtoms, tBegin, tCtx>>

\* One turn of the loop: transactions[i] is called with ctx and tx.
TAtomic ==
    /\ tPc = "loop"
    /\ tI <= Len(tAtoms)
    /\ IF tAtoms[tI].out = "panic"
       THEN /\ tLog' = Append(tLog, TEv("Atomic", tI, tCtx, "panic"))
            /\ tPc' = "panicked"
            /\ UNCHANGED <<tI, tCtx>>
       ELSE LET ret == Exec(tAtoms[tI], tI, tCtx)
            IN  /\ tLog' = Append(tLog, TEv("Atomic", tI, tCtx, ret.err))
                /\ tCtx' = Assigned(tCtx, ret)
                /\ IF ret.err # "nil"
                   THEN tPc' = "rollback" /\ UNCHANGED tI
                   ELSE tI' = tI + 1 /\ UNCHANGED tPc
    /\ UNCHANGED <<tAtoms, tBegin, tRet>>

\* transactions[i] failed: tx.Rollback(), and the error returned.
TRollback ==
    /\ tPc = "rollback"
    /\ \E rollbackErr \in {"nil", "errRollback"} :
         /\ tLog' = Append(tLog, TEv("Rollback", tI, tCtx, rollbackErr))
         /\ tRet' = IF rollbackErr # "nil"
                    THEN Join(Leaf(AtomicErr(tI)),
                              Errorf("rolling back transactions failed", Leaf(rollbackErr)))
                    ELSE Errorf("evaluating transactions", Leaf(AtomicErr(tI)))
    /\ tPc' = "returned"
    /\ UNCHANGED <<tAtoms, tBegin, tI, tCtx>>

\* After the loop: tx.Commit().
TCommit ==
    /\ tPc = "loop"
    /\ tI > Len(tAtoms)
    /\ \E err \in {"nil", "errCommit"} :
         /\ tLog' = Append(tLog, TEv("Commit", 0, tCtx, err))
         /\ tRet' = IF err # "nil" THEN Errorf("committing transaction", Leaf(err))
                    ELSE NoError
    /\ tPc' = "returned"
    /\ UNCHANGED <<tAtoms, tBegin, tI, tCtx>>

\* --------------------------------------------------------------- NamedExec
\* The execOption a list of ExecOptions builds: WithVerifyAffectedRows sets
\* verifyAffected and expectAffected, WithReadAffectedRows readAffected and its
\* destination, WithReadLastInsertedID the other destination.
ExecConfs ==
    {[verifyAffected |-> v, expectAffected |-> IF v THEN x ELSE 0,
      readAffected |-> r, lastInsertedID |-> l] :
        v \in BOOLEAN, x \in 0 .. MaxRows, r \in BOOLEAN, l \in BOOLEAN}

\* What the driver gives: the error of NamedExecContext, and of the
\* sql.Result the rows affected and the last inserted id, each with its error.
ExecResults ==
    {[execErr |-> e, rows |-> n, rowsErr |-> re, id |-> i, idErr |-> ie] :
        e \in {"nil", "errExec"}, n \in 0 .. MaxRows, re \in {"nil", "errRows"},
        i \in 1 .. MaxRows, ie \in {"nil", "errLastID"}}

\* *dst = v on the destinations m: the cell changes, the store is counted.
Store(m, d, v) ==
    [dst |-> [m.dst EXCEPT ![d] = v], writes |-> Append(m.writes, [dst |-> d, v |-> v])]

\* doAffectedRowsAction storing n before it looks at the error.
doAffectedRowsActionStoresFirst(conf, res, m) ==
    IF conf.verifyAffected \/ conf.readAffected
    THEN LET m1 == IF conf.readAffected THEN Store(m, "affected", res.rows) ELSE m
         IN  IF res.rowsErr # "nil"
             THEN [m |-> m1, err |-> Errorf("get affected rows", Leaf(res.rowsErr))]
             ELSE IF conf.verifyAffected /\ res.rows # conf.expectAffected
             THEN [m |-> m1, err |-> Errorf("expected, got", Leaf("ErrUnexpectedAffectedRows"))]
             ELSE [m |-> m1, err |-> NoError]
    ELSE [m |-> m, err |-> NoError]

\* doAffectedRowsAction(conf, res)
doAffectedRowsAction(conf, res, m) ==
    IF conf.verifyAffected \/ conf.readAffected
    THEN IF res.rowsErr # "nil"
         THEN [m |-> m, err |-> Errorf("get affected rows", Leaf(res.rowsErr))]
         ELSE LET m1 == IF conf.readAffected THEN Store(m, "affected", res.rows) ELSE m
              IN  IF conf.verifyAffected /\ res.rows # conf.expectAffected
                  THEN [m |-> m1,
                        err |-> Errorf("expected, got", Leaf("ErrUnexpectedAffectedRows"))]
                  ELSE [m |-> m1, err |-> NoError]
    ELSE [m |-> m, err |-> NoError]

\* doLastInsertIDAction(conf, res)
doLastInsertIDAction(conf, res, m) ==
    IF conf.lastInsertedID
    THEN IF res.idErr # "nil"
         THEN [m |-> m, err |-> Errorf("get last inserted ID", Leaf(res.idErr))]
         ELSE [m |-> Store(m, "id", res.id), err |-> NoError]
    ELSE [m |-> m, err |-> NoError]

ExecIdle ==
    /\ neConf = [verifyAffected |-> FALSE, expectAffected |-> 0,
                 readAffected |-> FALSE, lastInsertedID |-> FALSE]
    /\ neRes = [execErr |-> "nil", rows |-> 0, rowsErr |-> "nil", id |-> 1, idErr |-> "nil"]
    /\ neDst = [affected |-> 0, id |-> 0]
    /\ neWrites = <<>>
    /\ nePc = "off"
    /\ neErr = NoError

\* NamedExec(query, arg, opts...) made, the destinations at zero (var id,
\* affected int64), and the Atomic about to be called.
ExecInit ==
    /\ neConf \in ExecConfs
    /\ neRes \in ExecResults
    /\ neDst = [affected |-> 0, id |-> 0]
    /\ neWrites = <<>>
    /\ nePc = "start"
    /\ neErr = NoError

\* doNamedExec: res, err := db.NamedExecContext(ctx, query, arg)
NeExec ==
    /\ nePc = "start"
    /\ IF neRes.execErr # "nil"
       THEN /\ neErr' = Errorf("sqlxkit: NamedExec",
                               Errorf("exec query, error", Leaf(neRes.execErr)))
            /\ nePc' = "returned"
       ELSE /\ nePc' = "affected"
            /\ UNCHANGED neErr
    /\ UNCHANGED <<neConf, neRes, neDst, neWrites>>

\* doNamedExec: doAffectedRowsAction(conf, res)
NeAffected ==
    /\ nePc = "affected"
    /\ LET r == doAffectedRowsAction(neConf, neRes, [dst |-> neDst, writes |-> neWrites])
       IN  /\ neDst' = r.m.dst
           /\ neWrites' = r.m.writes
           /\ IF r.err # NoError
              THEN /\ neErr' = Errorf("sqlxkit: NamedExec",
                                      Errorf("process read affected rows", r.err))
                   /\ nePc' = "returned"
              ELSE /\ nePc' = "lastid"
                   /\ UNCHANGED neErr
    /\ UNCHANGED <<neConf, neRes>>

\* doNamedExec: doLastInsertIDAction(conf, res), and the return
NeLastID ==
    /\ nePc = "lastid"
    /\ LET r == doLastInsertIDAction(neConf, neRes, [dst |-> neDst, writes |-> neWrites])
       IN  /\ neDst' = r.m.dst
           /\ neWrites' = r.m.writes
           /\ neErr' = IF r.err # NoError
                       THEN Errorf("sqlxkit: NamedExec",
                                   Errorf("process read last insert id", r.err))
                       ELSE NoError
    /\ nePc' = "returned"
    /\ UNCHANGED <<neConf, neRes>>

\* ---------------------------------------------------------------- password
\* The goroutines, and the comparers there are: BcryptDefaultCost, the value
\* hashComparer starts with, and a custom one.
Procs == 1 .. MaxProcs
Comparers == {"bcrypt", "custom"}

\* An interface value holding comparer c: the type word and the data word.
Iface(c) == [typ |-> c, data |-> c]
NoAccess == [kind |-> "none", held |-> FALSE]

PwIdle ==
    /\ pHc = Iface("bcrypt")
    /\ pLock = 0
    /\ pOp = <<>>
    /\ pPc = <<>>
    /\ pArg = <<>>
    /\ pGot = <<>>
    /\ pAcc = <<>>
    /\ pCalls = <<>>

\* var hashComparer HashComparer = BcryptDefaultCost; var lock sync.RWMutex
PwInit ==
    /\ pHc = Iface("bcrypt")
    /\ pLock = 0
    /\ pOp = [p \in Procs |-> "none"]
    /\ pPc = [p \in Procs |-> "idle"]
    /\ pArg = [p \in Procs |-> "bcrypt"]
    /\ pGot = [p \in Procs |-> Iface("bcrypt")]
    /\ pAcc = [p \in Procs |-> NoAccess]
    /\ pCalls = [p \in Procs |-> 0]

\* Goroutine p calls SetHashComparer(hc).
PSet(p) ==
    /\ pPc[p] = "idle"
    /\ pCalls[p] < MaxCalls
    /\ \E hc \in Comparers : pArg' = [pArg EXCEPT ![p] = hc]
    /\ pOp' = [pOp EXCEPT ![p] = "Set"]
    /\ pPc' = [pPc EXCEPT ![p] = "lock"]
    /\ pCalls' = [pCalls EXCEPT ![p] = @ + 1]
    /\ UNCHANGED <<pHc, pLock, pGot, pAcc>>

\* SetHashComparer: lock.Lock()
PLock(p) ==
    /\ pPc[p] = "lock"
    /\ pLock = 0
    /\ pLock' = p
    /\ pPc' = [pPc EXCEPT ![p] = "storeTyp"]
    /\ UNCHANGED <<pHc, pOp, pArg, pGot, pAcc, pCalls>>

\* SetHashComparer: hashComparer = hc, one word at a time.
PStore(p) ==
    /\ pPc[p] \in {"storeTyp", "storeData"}
    /\ IF pPc[p] = "storeTyp"
       THEN /\ pHc' = [pHc EXCEPT !.typ = pArg[p]]
            /\ pPc' = [pPc EXCEPT ![p] = "storeData"]
       ELSE /\ pHc' = [pHc EXCEPT !.data = pArg[p]]
            /\ pPc' = [pPc EXCEPT ![p] = "unlock"]
    /\ pAcc' = [pAcc EXCEPT ![p] = [kind |-> "write", held |-> pLock = p]]
    /\ UNCHANGED <<pLock, pOp, pArg, pGot, pCalls>>

\* SetHashComparer: the deferred lock.Unlock()
PUnlock(p) ==
    /\ pPc[p] = "unlock"
    /\ pLock' = 0
    /\ pPc' = [pPc EXCEPT ![p] = "idle"]
    /\ pOp' = [pOp EXCEPT ![p] = "none"]
    /\ UNCHANGED <<pHc, pArg, pGot, pAcc, pCalls>>

\* Goroutine p calls Password.Hash, Password.Value (which calls Hash) or
\* Password.Compare; Compare on a password that is not set returns
\* ErrPasswordNotSet at once.
PRead(p) ==
    /\ pPc[p] = "idle"
    /\ pCalls[p] < MaxCalls
    /\ \E op \in {"Hash", "Value", "Compare"}, isSet \in BOOLEAN :
         IF op = "Compare" /\ ~isSet
         THEN UNCHANGED <<pOp, pPc>>
         ELSE /\ pOp' = [pOp EXCEPT ![p] = op]
              /\ pPc' = [pPc EXCEPT ![p] = "loadTyp"]
    /\ pCalls' = [pCalls EXCEPT ![p] = @ + 1]
    /\ UNCHANGED <<pHc, pLock, pArg, pGot, pAcc>>

\* hashComparer.Hash(...) / hashComparer.Compare(...): the value is loaded,
\* one word at a time.
PLoad(p) ==
    /\ pPc[p] \in {"loadTyp", "loadData"}
    /\ IF pPc[p] = "loadTyp"
       THEN /\ pGot' = [pGot EXCEPT ![p].typ = pHc.typ]
            /\ pPc' = [pPc EXCEPT ![p] = "loadData"]
       ELSE /\ pGot' = [pGot EXCEPT ![p].data = pHc.data]
            /\ pPc' = [pPc EXCEPT ![p] = "call"]
    /\ pAcc' = [pAcc EXCEPT ![p] = [kind |-> "read", held |-> pLock = p]]
    /\ UNCHANGED <<pHc, pLock, pOp, pArg, pCalls>>

\* The method of the loaded value runs and the call returns.
PDispatch(p) ==
    /\ pPc[p] = "call"
    /\ pPc' = [pPc EXCEPT ![p] = "idle"]
    /\ pOp' = [pOp EXCEPT ![p] = "none"]
    /\ UNCHANGED <<pHc, pLock, pArg, pGot, pAcc, pCalls>>

\* --------------------------------------------------------------- routes
\* ServeMux.Handle(method, path, handler): the closure registered with the
\* router keeps the handler; <<>> stands for no route.
Handle(mux, method, path, handler) == [mux EXCEPT !.core.trees[method] = handler]

\* Route applying the middlewares of the call to the routes registered
\* before as well.
RouteWrapsAll(mux, r, mid) ==
    LET m1 == Handle(mux, r.Method, r.Path, reduceMuxMiddleware(mid, <<r.Handler>>))
    IN  [m1 EXCEPT !.core.trees =
            [m \in Methods |->
                IF m # r.Method /\ mux.core.trees[m] # <<>>
                THEN reduceMuxMiddleware(mid, mux.core.trees[m])
                ELSE m1.core.trees[m]]]

\* ServeMux.Route(r, mid...)
Route(mux, r, mid) ==
    Handle(mux, r.Method, r.Path, reduceMuxMiddleware(mid, <<r.Handler>>))

\* The closure with the global middleware applied to the route's handler
\* alone, inside the route's middlewares.
HandleFuncInside(mux, handler) ==
    SubSeq(handler, 1, Len(handler) - 1)
    \o Then(mux.midl, <<handler[Len(handler)]>>)

\* What the closure registered by Handle calls: mux.midl.Then(handler).
HandleFunc(mux, handler) == Then(mux.midl, handler)

\* The closure handing only unresolved errors to the last resort handler.
LastResortSkipsResolved(err) == err \notin {"nil", "resolved"}

\* The closure's test after the call: if err != nil.
LastResortNeeded(err) == err # "nil"


\* The router's lookups.  A route is found for its method on RoutePath; the
\* path with a trailing slash recommends a redirect; the path in another
\* case is found by the case-insensitive search.
SlashPath == "/a/"
CasePath == "/A"
Registered(mux, method) == method \in Methods /\ mux.core.trees[method] # <<>>
getValue(mux, method, path) ==
    [handle |-> Registered(mux, method) /\ path = RoutePath,
     tsr |-> Registered(mux, method) /\ path = SlashPath]
findCaseInsensitivePath(mux, method, path, fixTrailingSlash) ==
    Registered(mux, method) /\ path = CasePath
\* allowed looking at the methods registered, whatever the path.
allowedAnyPath(mux, path, reqMethod) ==
    {m \in Methods : m # reqMethod /\ Registered(mux, m)}

allowed(mux, path, reqMethod) ==
    {m \in Methods : m # reqMethod /\ getValue(mux, m, path).handle}

\* The router choosing the route by the method alone, whatever the path.
LookupByMethod(mux, req) ==
    IF Registered(mux, req.method) THEN "match"
    ELSE IF req.method = "OPTIONS" /\ mux.core.HandleOPTIONS = "true"
         THEN (IF allowed(mux, req.path, "OPTIONS") # {} THEN "options" ELSE "notFound")
    ELSE IF /\ mux.core.HandleMethodNotAllowed = "true"
            /\ allowed(mux, req.path, req.method) # {}
         THEN "methodNotAllowed"
    ELSE "notFound"

\* What the router does with a request: call the route's handle, redirect,
\* reply to OPTIONS by itself, or call MethodNotAllowed or NotFound.
Lookup(mux, req) ==
    LET v == getValue(mux, req.method, req.path)
    IN  IF v.handle THEN "match"
        ELSE IF v.tsr /\ mux.core.RedirectTrailingSlash = "true" THEN "redirect"
        ELSE IF /\ Registered(mux, req.method)
                /\ mux.core.RedirectFixedPath = "true"
                /\ findCaseInsensitivePath(mux, req.method, req.path,
                                           mux.core.RedirectTrailingSlash = "true")
             THEN "redirect"
        ELSE IF req.method = "OPTIONS" /\ mux.core.HandleOPTIONS = "true"
             THEN (IF allowed(mux, req.path, "OPTIONS") # {} THEN "options" ELSE "notFound")
        ELSE IF /\ mux.core.HandleMethodNotAllowed = "true"
                /\ allowed(mux, req.path, req.method) # {}
             THEN "methodNotAllowed"
        ELSE "notFound"

\* A handler that writes a status and then a body to w, as the default
\* handlers do: w.WriteHeader(code); fmt.Fprintf(w, ...).
Respond(s, l, code) ==
    Write(WriteHeader(s, l, code), l, Bytes(0, 1), [n |-> 1, err |-> "nil"]).s

\* What a route's handler does with w before it returns or panics: nothing,
\* w.WriteHeader(201), or a w.Write on its own.
HandlerWrites == {"none", "header", "body"}
HandlerResults == {"nil", "err", "resolved", "panic"}
HandlerWrite(s, l, w) ==
    CASE w = "none" -> s
      [] w = "header" -> WriteHeader(s, l, StatusCreated)
      [] w = "body" -> Write(s, l, Bytes(0, 1), [n |-> 1, err |-> "nil"]).s

NoReq == [method |-> "none", path |-> "none"]

\* ----------------------------------------------------------- router actions
MuxIdle ==
    /\ xMux = NewServeMux(<<>>)
    /\ xPc = "off"
    /\ xReq = NoReq
    /\ xExec = NoExec
    /\ xOut = <<>>
    /\ xErrs = <<>>

\* mux := NewServeMux(opts...)
MuxInit ==
    /\ xMux \in {NewServeMux(opts) : opts \in SeqsUpTo(MuxOption, MaxOpts)}
    /\ xPc = "setup"
    /\ xReq = NoReq
    /\ xExec = NoExec
    /\ xOut = <<>>
    /\ xErrs = <<>>

\* mux.Route(Route{method, RoutePath, handler}, mid1, ..., midn), before the
\* first request; the router refuses a second route for the same method and
\* path.
XRoute ==
    /\ xPc = "setup"
    /\ \E method \in Methods, n \in 0 .. MaxRouteMids :
         /\ ~Registered(xMux, method)
         /\ xMux' = Route(xMux,
                          [Method |-> method, Path |-> RoutePath,
                           Handler |-> RouteHandler(method)],
                          [k \in 1 .. n |-> RouteMid(method, k)])
    /\ UNCHANGED <<xPc, xReq, xExec, xOut, xErrs>>
    /\ UNCHANGED recVars

\* A request arrives at LogEntryRecorder, which checks a recorder out and
\* calls the mux with it: mux.ServeHTTP(rec, rec.withRequest(r)).
XReceive(q) ==
    /\ xPc \in {"setup", "idle"}
    /\ cur[q] = 0
    /\ served < MaxDispatch
    /\ \E method \in ReqMethods, path \in ReqPaths :
         xReq' = [method |-> method, path |-> path]
    /\ LET s0 == [Mem EXCEPT !.rw[q] = NewWriter,
                             !.body[q] = NewBody(0),
                             !.reqBody[q] = BodyRef(q)]
       IN  \E g \in newLogEntryRecorder(s0, q) :
              /\ SetMem(withRequest(g.s, g.id, q))
              /\ cur' = [cur EXCEPT ![q] = g.id]
    /\ xPc' = "routing"
    /\ UNCHANGED <<xMux, xExec, xOut, xErrs>>
    /\ UNCHANGED <<slots, served, ops, obs, sent>>

\* The router finds the route and calls the closure Handle registered.
XMatch(q) ==
    /\ xPc = "routing"
    /\ cur[q] # 0
    /\ Lookup(xMux, xReq) = "match"
    /\ xExec' = ExecStart(HandleFunc(xMux, xMux.core.trees[xReq.method]))
    /\ xPc' = "chain"
    /\ UNCHANGED <<xMux, xReq, xOut, xErrs>>
    /\ UNCHANGED recVars

\* The router redirects to the registered path: http.Redirect with 301 for
\* GET and 307 otherwise, which writes a short body for GET.
XRedirect(q) ==
    /\ xPc = "routing"
    /\ cur[q] # 0
    /\ Lookup(xMux, xReq) = "redirect"
    /\ SetMem(IF xReq.method = "GET"
              THEN Respond(Mem, cur[q], StatusMovedPermanently)
              ELSE WriteHeader(Mem, cur[q], StatusTemporaryRedirect))
    /\ xOut' = Append(xOut, "redirect")
    /\ xPc' = "responded"
    /\ UNCHANGED <<xMux, xReq, xExec, xErrs>>
    /\ UNCHANGED <<slots, cur, served, ops, obs, sent>>

\* The router replies to OPTIONS: it sets the Allow header and calls
\* GlobalOPTIONS if there is one, which writes a response or nothing.
XOptions(q) ==
    /\ xPc = "routing"
    /\ cur[q] # 0
    /\ Lookup(xMux, xReq) = "options"
    /\ \E writes \in BOOLEAN :
         /\ writes => xMux.core.GlobalOPTIONS # "nil"
         /\ SetMem(IF writes THEN Respond(Mem, cur[q], StatusOK) ELSE Mem)
    /\ xOut' = Append(xOut, "options")
    /\ xPc' = "responded"
    /\ UNCHANGED <<xMux, xReq, xExec, xErrs>>
    /\ UNCHANGED <<slots, cur, served, ops, obs, sent>>

\* The router calls MethodNotAllowed: another method is registered for the
\* path.
XMethodNotAllowed(q) ==
    /\ xPc = "routing"
    /\ cur[q] # 0
    /\ Lookup(xMux, xReq) = "methodNotAllowed"
    /\ SetMem(Respond(Mem, cur[q], StatusMethodNotAllowed))
    /\ xOut' = Append(xOut, "method-not-allowed")
    /\ xPc' = "responded"
    /\ UNCHANGED <<xMux, xReq, xExec, xErrs>>
    /\ UNCHANGED <<slots, cur, served, ops, obs, sent>>

\* The router calls NotFound.
XNotFound(q) ==
    /\ xPc = "routing"
    /\ cur[q] # 0
    /\ Lookup(xMux, xReq) = "notFound"
    /\ SetMem(Respond(Mem, cur[q], StatusNotFound))
    /\ xOut' = Append(xOut, "not-found")
    /\ xPc' = "responded"
    /\ UNCHANGED <<xMux, xReq, xExec, xErrs>>
    /\ UNCHANGED <<slots, cur, served, ops, obs, sent>>

\* The next layer of the matched route is entered: a middleware, which adds
\* its trace and calls next or panics, or the route's handler, which writes
\* to w what it likes and returns nil, an error, a resolved error, or panics.
XCall(q) ==
    /\ xPc = "chain"
    /\ cur[q] # 0
    /\ xExec.rest # <<>>
    /\ IF Head(xExec.rest).t = "mid"
       THEN /\ \E panics \in BOOLEAN :
                 xExec' = IF panics THEN ExecPanic(ExecEnter(xExec)) ELSE ExecEnter(xExec)
            /\ UNCHANGED <<recs, bufs, rpool, bpool, rw, body, reqBody, clock>>
       ELSE \E w \in HandlerWrites, r \in HandlerResults :
              /\ SetMem(HandlerWrite(Mem, cur[q], w))
              /\ xExec' = ExecHandler(xExec, r)
    /\ UNCHANGED <<xMux, xPc, xReq, xOut, xErrs>>
    /\ UNCHANGED <<slots, cur, served, ops, obs, sent>>

\* The innermost middleware returns, or is unwound by the panic.
XReturn(q) ==
    /\ xPc = "chain"
    /\ cur[q] # 0
    /\ xExec.rest = <<>>
    /\ xExec.stack # <<>>
    /\ xExec' = ExecLeave(xExec)
    /\ UNCHANGED <<xMux, xPc, xReq, xOut, xErrs>>
    /\ UNCHANGED recVars

\* The chain returned to the closure of Handle without an error.
XSuccess(q) ==
    /\ xPc = "chain"
    /\ cur[q] # 0
    /\ ExecReturned(xExec)
    /\ ~xExec.panic
    /\ ~LastResortNeeded(xExec.ret)
    /\ xOut' = Append(xOut, "success")
    /\ xPc' = "responded"
    /\ UNCHANGED <<xMux, xReq, xExec, xErrs>>
    /\ UNCHANGED recVars

\* The chain returned an error: the closure of Handle calls
\* mux.conf.LastResortErrorHandler(w, r, err), the default one writing 500
\* and a caller's one its own status.
XLastResort(q) ==
    /\ xPc = "chain"
    /\ cur[q] # 0
    /\ ExecReturned(xExec)
    /\ ~xExec.panic
    /\ LastResortNeeded(xExec.ret)
    /\ SetMem(Respond(Mem, cur[q],
                      IF xMux.conf.LastResortErrorHandler = "default"
                      THEN StatusInternalServerError ELSE StatusBadRequest))
    /\ xErrs' = Append(xErrs, xExec.ret)
    /\ xOut' = Append(xOut, "last-resort-error")
    /\ xPc' = "responded"
    /\ UNCHANGED <<xMux, xReq, xExec>>
    /\ UNCHANGED <<slots, cur, served, ops, obs, sent>>

\* The panic unwound the closure of Handle and reached the router's
\* ServeHTTP, which defers recv only if it has a PanicHandler: recv recovers
\* and calls it, the default one writing 500 and a caller's one its own
\* status.  Without one the panic leaves mux.ServeHTTP.
XPanic(q) ==
    /\ xPc = "chain"
    /\ cur[q] # 0
    /\ ExecReturned(xExec)
    /\ xExec.panic
    /\ IF xMux.core.PanicHandler # "nil"
       THEN /\ SetMem(Respond(Mem, cur[q],
                              IF xMux.core.PanicHandler = "default"
                              THEN StatusInternalServerError ELSE StatusBadRequest))
            /\ xOut' = Append(xOut, "panic-handled")
            /\ xPc' = "responded"
       ELSE /\ xPc' = "panicked"
            /\ UNCHANGED <<recs, bufs, rpool, bpool, rw, body, reqBody, clock, xOut>>
    /\ UNCHANGED <<xMux, xReq, xExec, xErrs>>
    /\ UNCHANGED <<slots, cur, served, ops, obs, sent>>

\* mux.ServeHTTP returned: the deferred putLogEntryRecorder(rec) runs and the
\* request is gone.
XExit(q) ==
    /\ xPc = "responded"
    /\ cur[q] # 0
    /\ SetMem([putLogEntryRecorder(Mem, cur[q]) EXCEPT !.rw[q] = NewWriter,
                                                       !.body[q] = NewBody(0)])
    /\ cur' = [cur EXCEPT ![q] = 0]
    /\ served' = served + 1
    /\ xPc' = "idle"
    /\ xReq' = NoReq
    /\ xExec' = NoExec
    /\ xOut' = <<>>
    /\ xErrs' = <<>>
    /\ UNCHANGED xMux
    /\ UNCHANGED <<slots, ops, obs, sent>>

\* --------------------------------------------------------- teardown actions
\* putLogEntryRecorder statement by statement, other requests running between
\* the statements.  tpc[q] is "none" outside putLogEntryRecorder, "buffers"
\* once the buffers are put, "cleared" once the references are cleared.
TearIdle == tpc = [q \in 1 .. MaxInFlight |-> "none"]

\* A request arrives.
TEnter(q) ==
    /\ tpc[q] = "none"
    /\ EnterWith(q, MaxBody)
    /\ UNCHANGED tpc

\* Its handler writes once, one byte that the underlying writer takes.
TWrite(q) ==
    /\ tpc[q] = "none"
    /\ ops[q] = 0
    /\ HWriteWith(q, 1, [n |-> 1, err |-> "nil"])
    /\ UNCHANGED tpc

\* The handler has returned; putLogEntryRecorder puts the buffers back.
TPutBuffers(q) ==
    /\ tpc[q] = "none"
    /\ cur[q] # 0
    /\ SetMem(putBuffers(Mem, cur[q]))
    /\ tpc' = [tpc EXCEPT ![q] = "buffers"]
    /\ UNCHANGED <<slots, cur, served, ops, obs, sent>>

\* It clears rec.req and rec.ResponseWriter.
TClearRefs(q) ==
    /\ tpc[q] = "buffers"
    /\ SetMem(clearRefs(Mem, cur[q]))
    /\ tpc' = [tpc EXCEPT ![q] = "cleared"]
    /\ UNCHANGED <<slots, cur, served, ops, obs, sent>>

\* It puts the recorder into the pool; the request, its body and its
\* response writer are gone after that.
TPutRecorder(q) ==
    /\ tpc[q] = "cleared"
    /\ SetMem([RecorderPoolPut(Mem, cur[q]) EXCEPT !.rw[q] = NewWriter,
                                                   !.body[q] = NewBody(0)])
    /\ cur' = [cur EXCEPT ![q] = 0]
    /\ served' = served + 1
    /\ ops' = [ops EXCEPT ![q] = 0]
    /\ obs' = [obs EXCEPT ![q] = [NoObs EXCEPT !.op = "Exit"]]
    /\ sent' = [sent EXCEPT ![q] = NoSent]
    /\ tpc' = [tpc EXCEPT ![q] = "none"]
    /\ UNCHANGED slots

\* ------------------------------------------------------------ GetLogEntry
\* An http.ResponseWriter is the sequence of its layers, outermost first: the
\* recorder of LogEntry log, a wrapper with an Unwrap method (rwWrapper), or a
\* writer without one (the server's own, httptest's).  Each layer wraps the
\* rest of the sequence; the empty sequence is the nil writer.
Recorder(log) == [t |-> "recorder", log |-> log]
Wrapper == [t |-> "wrapper", log |-> 0]
Opaque == [t |-> "opaque", log |-> 0]
Layers == {Recorder(1), Recorder(2), Wrapper, Opaque}

NoRes == [log |-> 0, ok |-> FALSE, set |-> FALSE]

\* The type switch with the Unwrap case tried first.
SwitchUnwrapFirst(w) ==
    IF w # <<>> /\ Head(w).t \in {"wrapper", "recorder"}
    THEN [ret |-> FALSE, log |-> 0, ok |-> FALSE, rw |-> Tail(w)]
    ELSE IF w # <<>> /\ Head(w).t = "recorder"
    THEN [ret |-> TRUE, log |-> Head(w).log, ok |-> TRUE, rw |-> w]
    ELSE [ret |-> TRUE, log |-> 0, ok |-> FALSE, rw |-> w]

\* One turn of the loop of GetLogEntry, the type switch on rw: return the
\* recorder's log, go on with rw.Unwrap(), or return (nil, false).
SwitchOn(w) ==
    IF w # <<>> /\ Head(w).t = "recorder"
    THEN [ret |-> TRUE, log |-> Head(w).log, ok |-> TRUE, rw |-> w]
    ELSE IF w # <<>> /\ Head(w).t = "wrapper"
    THEN [ret |-> FALSE, log |-> 0, ok |-> FALSE, rw |-> Tail(w)]
    ELSE [ret |-> TRUE, log |-> 0, ok |-> FALSE, rw |-> w]

LookIdle ==
    /\ lW = <<>>
    /\ lRw = <<>>
    /\ lPc = "off"
    /\ lRes = NoRes
    /\ lFirst = NoRes

\* A handler holds a writer of up to MaxWrap layers around an innermost one.
LookInit ==
    /\ lW \in SeqsUpTo(Layers, MaxWrap + 1)
    /\ lRw = <<>>
    /\ lPc = "start"
    /\ lRes = NoRes
    /\ lFirst = NoRes

\* GetLogEntry(w) is called: rw := w.
LCall ==
    /\ lPc = "start"
    /\ lRw' = lW
    /\ lPc' = "loop"
    /\ UNCHANGED <<lW, lRes, lFirst>>

\* The switch takes the Unwrap case: rw = t.Unwrap().
LUnwrap ==
    /\ lPc = "loop"
    /\ ~SwitchOn(lRw).ret
    /\ lRw' = SwitchOn(lRw).rw
    /\ UNCHANGED <<lW, lPc, lRes, lFirst>>

\* The switch returns: the recorder's log, or (nil, false).
LReturn ==
    /\ lPc = "loop"
    /\ SwitchOn(lRw).ret
    /\ lRes' = [log |-> SwitchOn(lRw).log, ok |-> SwitchOn(lRw).ok, set |-> TRUE]
    /\ lPc' = "done"
    /\ UNCHANGED <<lW, lRw, lFirst>>

\* The handler calls GetLogEntry(w) a second time with the same writer.
LCallAgain ==
    /\ lPc = "done"
    /\ ~lFirst.set
    /\ lFirst' = lRes
    /\ lRes' = NoRes
    /\ lRw' = lW
    /\ lPc' = "loop"
    /\ UNCHANGED lW

\* ----------------------------------------------------------- error values
\* An error is the sequence of its layers, outermost first, each layer
\* holding the rest of the sequence: a leaf made by errors.New or a leaf that
\* is a problemdetail.ProblemDetailer of some kind, under layers made by
\* fmt.Errorf("...%w") (which has Unwrap), by errors.Join with a write error
\* (Unwrap() []error) or by ResolveError.  The empty sequence is the nil error.
NilErr == <<>>
ErrLayer(t, k) == [t |-> t, k |-> k]
PDKinds == {"user-not-found", "email-already-taken", "invalid-arguments", "other"}
Leaves == {ErrLayer("new", "boom")} \cup {ErrLayer("pd", k) : k \in PDKinds}
Wrappers == {ErrLayer("wrap", "handler"), ErrLayer("resolved", "")}

\* The non-nil errors a handler can return: a leaf under up to MaxErrDepth
\* layers.
HandlerErrors ==
    {w \o <<l>> : w \in SeqsUpTo(Wrappers, MaxErrDepth), l \in Leaves}

\* ResolveError(err): &ResolvedError{Err: err}
ResolveError(err) == <<ErrLayer("resolved", "")>> \o err

\* err.Error(), as the words of the message.  (*ResolvedError).Error is
\* e.Err.Error(); fmt.Errorf puts its own text before the wrapped one's;
\* errors.Join puts the messages on separate lines.
RECURSIVE Error(_)
Error(err) ==
    IF err = NilErr THEN <<>>
    ELSE LET h == Head(err)
         IN  CASE h.t \in {"new", "pd"} -> <<h.k>>
               [] h.t = "resolved" -> Error(Tail(err))
               [] h.t = "wrap" -> <<h.k, ": ">> \o Error(Tail(err))
               [] h.t = "join" -> <<h.k, "\n">> \o Error(Tail(err))

\* Whether the layer has an Unwrap method that the errors package follows.
\* *ResolvedError declares Error only.
HasUnwrap(h) == h.t \in {"wrap", "join"}

\* errors.As(err, &resolvedErr) for a *ResolvedError target: the first
\* *ResolvedError found following Unwrap, with its Err field.
RECURSIVE AsResolved(_)
AsResolved(err) ==
    IF err = NilErr THEN [ok |-> FALSE, Err |-> NilErr]
    ELSE IF Head(err).t = "resolved" THEN [ok |-> TRUE, Err |-> Tail(err)]
    ELSE IF HasUnwrap(Head(err)) THEN AsResolved(Tail(err))
    ELSE [ok |-> FALSE, Err |-> NilErr]

\* errors.As(err, &pd) for a problemdetail.ProblemDetailer target.
RECURSIVE AsProblemDetailer(_)
AsProblemDetailer(err) ==
    IF err = NilErr THEN [ok |-> FALSE, kind |-> ""]
    ELSE IF Head(err).t = "pd" THEN [ok |-> TRUE, kind |-> Head(err).k]
    ELSE IF HasUnwrap(Head(err)) THEN AsProblemDetailer(Tail(err))
    ELSE [ok |-> FALSE, kind |-> ""]

\* errors.Is(err, target): err == target, else go on with what Unwrap gives.
RECURSIVE Is(_, _)
Is(err, target) ==
    IF err = NilErr THEN FALSE
    ELSE IF err = target THEN TRUE
    ELSE IF HasUnwrap(Head(err)) THEN Is(Tail(err), target)
    ELSE FALSE

NoAs == [ok |-> FALSE, Err |-> NilErr]

ResIdle ==
    /\ rE = NilErr
    /\ rErr = NilErr
    /\ rPc = "off"
    /\ rAs = NoAs
    /\ rText = <<>>
    /\ rIs = FALSE

ResInit ==
    /\ rE \in HandlerErrors
    /\ rErr = NilErr
    /\ rPc = "start"
    /\ rAs = NoAs
    /\ rText = <<>>
    /\ rIs = FALSE

\* err := ResolveError(rootErr)
RResolve ==
    /\ rPc = "start"
    /\ rErr' = ResolveError(rE)
    /\ rPc' = "wrapped"
    /\ UNCHANGED <<rE, rAs, rText, rIs>>

\* errors.As(err, &resolvedErr)
RAs ==
    /\ rPc = "wrapped"
    /\ rAs' = AsResolved(rErr)
    /\ rPc' = "as"
    /\ UNCHANGED <<rE, rErr, rText, rIs>>

\* err.Error()
RError ==
    /\ rPc = "as"
    /\ rText' = Error(rErr)
    /\ rPc' = "text"
    /\ UNCHANGED <<rE, rErr, rAs, rIs>>

\* errors.Is(err, rootErr)
RIs ==
    /\ rPc = "text"
    /\ rIs' = Is(rErr, rE)
    /\ rPc' = "done"
    /\ UNCHANGED <<rE, rErr, rAs, rText>>

\* -------------------------------------------------------- LogAndErrHandling
\* GetLogEntry(w) as a whole: the loop over SwitchOn.
RECURSIVE GetLogEntry(_)
GetLogEntry(w) ==
    LET r == SwitchOn(w)
    IN  IF r.ret THEN [log |-> r.log, ok |-> r.ok] ELSE GetLogEntry(r.rw)

Rendered(by, code) == [by |-> by, code |-> code]

\* sendJSONError(w, code, data, err, resolved); fail says that
\* problemdetail.WriteJSON returned an error.  The result carries the error
\* returned and the response rendered, if one was.
sendJSONError(code, err, resolved, fail) ==
    IF fail
    THEN [err |-> <<ErrLayer("join", "errWrite")>> \o err, out |-> <<>>]
    ELSE [err |-> IF resolved THEN ResolveError(err) ELSE err,
          out |-> <<Rendered("MapError", code)>>]

\* MapError(w, err)
MapError(err, fail) ==
    LET pd == AsProblemDetailer(err)
    IN  IF ~pd.ok
        THEN sendJSONError(StatusInternalServerError, err, FALSE, fail)
        ELSE CASE pd.kind = "email-already-taken" ->
                      sendJSONError(StatusConflict, err, TRUE, fail)
               [] pd.kind = "user-not-found" ->
                      sendJSONError(StatusNotFound, err, TRUE, fail)
               [] pd.kind = "invalid-arguments" ->
                      sendJSONError(StatusBadRequest, err, TRUE, fail)
               [] OTHER ->
                      [err |-> <<ErrLayer("wrap", "could not map error")>> \o err,
                       out |-> <<>>]

LogAttrs(level, msg, err) == [level |-> level, msg |-> msg, error |-> err]

\* The record chosen by looking at the outermost layer only.
LogRecordTopLayer(err) ==
    IF Head(err).t # "resolved"
    THEN LogAttrs("ERROR", "unresolved_error", err)
    ELSE LogAttrs("INFO", "resolved_error", Tail(err))

\* The record LogAndErrHandling writes for the mapped error err.
LogRecord(err) ==
    IF ~AsResolved(err).ok
    THEN LogAttrs("ERROR", "unresolved_error", err)
    ELSE LogAttrs("INFO", "resolved_error", AsResolved(err).Err)

EhIdle ==
    /\ eW = <<>>
    /\ eErr = NilErr
    /\ eFail = FALSE
    /\ ePc = "off"
    /\ eRet = NilErr
    /\ eMapped = NilErr
    /\ eLogs = <<>>
    /\ eOut = <<>>

\* A request reaches the middleware with the recorder as its writer, behind
\* a wrapper or not, or with no recorder installed; the route handler will
\* return nil or an error.
EhInit ==
    /\ eW \in {<<Recorder(1)>>, <<Wrapper, Recorder(1)>>, <<Opaque>>}
    /\ eErr \in HandlerErrors \cup {NilErr}
    /\ eFail \in BOOLEAN
    /\ ePc = "start"
    /\ eRet = NilErr
    /\ eMapped = NilErr
    /\ eLogs = <<>>
    /\ eOut = <<>>

\* GetLogEntry(w) finds no recorder: return "missing log entry".
EMissing ==
    /\ ePc = "start"
    /\ ~GetLogEntry(eW).ok
    /\ eRet' = <<ErrLayer("new", "missing log entry")>>
    /\ ePc' = "mux"
    /\ UNCHANGED <<eW, eErr, eFail, eMapped, eLogs, eOut>>

\* err := next.ServeHTTP(w, r)
ECallNext ==
    /\ ePc = "start"
    /\ GetLogEntry(eW).ok
    /\ eRet' = eErr
    /\ ePc' = "returned"
    /\ UNCHANGED <<eW, eErr, eFail, eMapped, eLogs, eOut>>

\* err == nil: log "completed", return nil.
ECompleted ==
    /\ ePc = "returned"
    /\ eRet = NilErr
    /\ eLogs' = Append(eLogs, LogAttrs("INFO", "completed", NilErr))
    /\ ePc' = "mux"
    /\ UNCHANGED <<eW, eErr, eFail, eRet, eMapped, eOut>>

\* err = MapError(w, err)
EMapError ==
    /\ ePc = "returned"
    /\ eRet # NilErr
    /\ LET m == MapError(eRet, eFail)
       IN  /\ eRet' = m.err
           /\ eMapped' = m.err
           /\ eOut' = eOut \o m.out
    /\ ePc' = "mapped"
    /\ UNCHANGED <<eW, eErr, eFail, eLogs>>

\* Log "unresolved_error" or "resolved_error", then return nil.
ELog ==
    /\ ePc = "mapped"
    /\ eLogs' = Append(eLogs, LogRecord(eRet))
    /\ eRet' = NilErr
    /\ ePc' = "mux"
    /\ UNCHANGED <<eW, eErr, eFail, eMapped, eOut>>

\* The closure of ServeMux.Handle got nil from the chain.
EHandleNil ==
    /\ ePc = "mux"
    /\ eRet = NilErr
    /\ ePc' = "done"
    /\ UNCHANGED <<eW, eErr, eFail, eRet, eMapped, eLogs, eOut>>

\* The closure of ServeMux.Handle got an error from the chain and calls the
\* LastResortErrorHandler.
EHandleErr ==
    /\ ePc = "mux"
    /\ eRet # NilErr
    /\ eOut' = Append(eOut, Rendered("LastResortErrorHandler", StatusInternalServerError))
    /\ ePc' = "done"
    /\ UNCHANGED <<eW, eErr, eFail, eRet, eMapped, eLogs>>

\* ----------------------------------------------------------- specifications
\* The recorder serving requests one after the other.
InitRec ==
    RecInit /\ MidIdle /\ MuxIdle /\ TearIdle /\ LookIdle /\ ResIdle /\ EhIdle /\ NewIdle
    /\ RunIdle /\ TxIdle
    /\ ExecIdle /\ PwIdle

NextRec ==
    \/ (\E q \in slots : Enter(q)) /\ UNCHANGED restOfRec
    \/ (\E q \in slots : HRead(q)) /\ UNCHANGED restOfRec
    \/ (\E q \in slots : HWriteHeader(q)) /\ UNCHANGED restOfRec
    \/ (\E q \in slots : HWrite(q)) /\ UNCHANGED restOfRec
    \/ (\E q \in slots : HSetDiscardReq(q)) /\ UNCHANGED restOfRec
    \/ (\E q \in slots : HSetDiscardRes(q)) /\ UNCHANGED restOfRec
    \/ (\E q \in slots : Exit(q)) /\ UNCHANGED restOfRec

SpecRec == InitRec /\ [][NextRec]_vars

\* The recorder as the request body: requests with and without a body, closed
\* by the handler.
InitClose ==
    RecInit /\ MidIdle /\ MuxIdle /\ TearIdle /\ LookIdle /\ ResIdle /\ EhIdle /\ NewIdle
    /\ RunIdle /\ TxIdle
    /\ ExecIdle /\ PwIdle

NextClose ==
    \/ (\E q \in slots : Enter(q)) /\ UNCHANGED restOfRec
    \/ (\E q \in slots : EnterNoBody(q)) /\ UNCHANGED restOfRec
    \/ (\E q \in slots : HClose(q)) /\ UNCHANGED restOfRec
    \/ (\E q \in slots : HSetDiscardReq(q)) /\ UNCHANGED restOfRec
    \/ (\E q \in slots : Exit(q)) /\ UNCHANGED restOfRec

SpecClose == InitClose /\ [][NextClose]_vars

\* Requests that are served more than once: the caller passes the same
\* *http.Request to the recorder again after it returned.
InitAgain ==
    RecInitWith(1 .. MaxInFlight) /\ MidIdle /\ MuxIdle /\ TearIdle /\ LookIdle /\ ResIdle /\ EhIdle /\ NewIdle
    /\ RunIdle /\ TxIdle
    /\ ExecIdle /\ PwIdle

NextAgain ==
    \/ (\E q \in slots : Enter(q)) /\ UNCHANGED restOfRec
    \/ (\E q \in slots : EnterAgain(q)) /\ UNCHANGED restOfRec
    \/ (\E q \in slots : HWriteHeader(q)) /\ UNCHANGED restOfRec
    \/ (\E q \in slots : Exit(q)) /\ UNCHANGED restOfRec

SpecAgain == InitAgain /\ [][NextAgain]_vars

\* Handlers that return or panic, several requests (without a body) in flight.
InitPanic ==
    RecInitWith(1 .. MaxInFlight) /\ MidIdle /\ MuxIdle /\ TearIdle /\ LookIdle /\ ResIdle /\ EhIdle /\ NewIdle
    /\ RunIdle /\ TxIdle
    /\ ExecIdle /\ PwIdle

NextPanic ==
    \/ (\E q \in slots : EnterNoBody(q)) /\ UNCHANGED restOfRec
    \/ (\E q \in slots : HSetDiscardReq(q)) /\ UNCHANGED restOfRec
    \/ (\E q \in slots : Exit(q)) /\ UNCHANGED restOfRec
    \/ (\E q \in slots : ExitPanic(q)) /\ UNCHANGED restOfRec

SpecPanic == InitPanic /\ [][NextPanic]_vars

\* The composer: one slice reduced, applied to a handler, and the result called.
InitMid ==
    MidInit /\ RecInit /\ MuxIdle /\ TearIdle /\ LookIdle /\ ResIdle /\ EhIdle /\ NewIdle
    /\ RunIdle /\ TxIdle
    /\ ExecIdle /\ PwIdle

NextMid ==
    \/ MReduce /\ UNCHANGED restOfMid
    \/ MThen /\ UNCHANGED restOfMid
    \/ MServe /\ UNCHANGED restOfMid
    \/ MCall /\ UNCHANGED restOfMid
    \/ MReturn /\ UNCHANGED restOfMid
    \/ MDone /\ UNCHANGED restOfMid

SpecMid == InitMid /\ [][NextMid]_vars

\* NewServeMux on its own.
InitNew ==
    NewInit /\ RecInit /\ MidIdle /\ MuxIdle /\ TearIdle /\ LookIdle /\ ResIdle /\ EhIdle
    /\ RunIdle /\ TxIdle
    /\ ExecIdle /\ PwIdle

NextNew == NNew /\ UNCHANGED restOfNew

SpecNew == InitNew /\ [][NextNew]_vars

\* The same, the caller writing to its slice between Reduce and Then.
InitModify ==
    MidInit /\ RecInit /\ MuxIdle /\ TearIdle /\ LookIdle /\ ResIdle /\ EhIdle /\ NewIdle
    /\ RunIdle /\ TxIdle
    /\ ExecIdle /\ PwIdle

NextModify ==
    \/ MReduce /\ UNCHANGED restOfMid
    \/ MModify /\ UNCHANGED restOfMid
    \/ MThen /\ UNCHANGED restOfMid
    \/ MServe /\ UNCHANGED restOfMid
    \/ MCall /\ UNCHANGED restOfMid
    \/ MReturn /\ UNCHANGED restOfMid
    \/ MDone /\ UNCHANGED restOfMid

SpecModify == InitModify /\ [][NextModify]_vars

\* The mux behind the recorder: built, given its routes, then serving.
InitMux ==
    MuxInit /\ RecInit /\ MidIdle /\ TearIdle /\ LookIdle /\ ResIdle /\ EhIdle /\ NewIdle
    /\ RunIdle /\ TxIdle
    /\ ExecIdle /\ PwIdle

NextMux ==
    \/ XRoute /\ UNCHANGED restOfMux
    \/ (\E q \in slots : XReceive(q)) /\ UNCHANGED restOfMux
    \/ (\E q \in slots : XMatch(q)) /\ UNCHANGED restOfMux
    \/ (\E q \in slots : XRedirect(q)) /\ UNCHANGED restOfMux
    \/ (\E q \in slots : XOptions(q)) /\ UNCHANGED restOfMux
    \/ (\E q \in slots : XMethodNotAllowed(q)) /\ UNCHANGED restOfMux
    \/ (\E q \in slots : XNotFound(q)) /\ UNCHANGED restOfMux
    \/ (\E q \in slots : XCall(q)) /\ UNCHANGED restOfMux
    \/ (\E q \in slots : XReturn(q)) /\ UNCHANGED restOfMux
    \/ (\E q \in slots : XSuccess(q)) /\ UNCHANGED restOfMux
    \/ (\E q \in slots : XLastResort(q)) /\ UNCHANGED restOfMux
    \/ (\E q \in slots : XPanic(q)) /\ UNCHANGED restOfMux
    \/ (\E q \in slots : XExit(q)) /\ UNCHANGED restOfMux

SpecMux == InitMux /\ [][NextMux]_vars

\* The recorder serving requests concurrently: each request is a goroutine of
\* the server, and their steps interleave.  Every request has a body of
\* MaxBody bytes and its handler makes one call, a Read or a Write.
InitConc ==
    RecInitWith(1 .. MaxInFlight) /\ MidIdle /\ MuxIdle /\ TearIdle /\ LookIdle /\ ResIdle /\ EhIdle /\ NewIdle
    /\ RunIdle /\ TxIdle
    /\ ExecIdle /\ PwIdle

NextConc ==
    \/ (\E q \in slots : EnterWith(q, MaxBody)) /\ UNCHANGED restOfRec
    \/ (\E q \in slots : ops[q] = 0 /\ HRead(q)) /\ UNCHANGED restOfRec
    \/ (\E q \in slots : ops[q] = 0 /\ HWrite(q)) /\ UNCHANGED restOfRec
    \/ (\E q \in slots : Exit(q)) /\ UNCHANGED restOfRec

SpecConc == InitConc /\ [][NextConc]_vars

\* The same with putLogEntryRecorder taken statement by statement.
InitTear ==
    RecInitWith(1 .. MaxInFlight) /\ MidIdle /\ MuxIdle /\ TearIdle /\ LookIdle /\ ResIdle /\ EhIdle /\ NewIdle
    /\ RunIdle /\ TxIdle
    /\ ExecIdle /\ PwIdle

NextTear ==
    \/ (\E q \in slots : TEnter(q)) /\ UNCHANGED restOfTear
    \/ (\E q \in slots : TWrite(q)) /\ UNCHANGED restOfTear
    \/ (\E q \in slots : TPutBuffers(q)) /\ UNCHANGED restOfTear
    \/ (\E q \in slots : TClearRefs(q)) /\ UNCHANGED restOfTear
    \/ (\E q \in slots : TPutRecorder(q)) /\ UNCHANGED restOfTear

SpecTear == InitTear /\ [][NextTear]_vars

\* GetLogEntry called twice on one writer.
InitLook ==
    LookInit /\ RecInit /\ MidIdle /\ MuxIdle /\ TearIdle /\ ResIdle /\ EhIdle /\ NewIdle
    /\ RunIdle /\ TxIdle
    /\ ExecIdle /\ PwIdle

NextLook ==
    \/ LCall /\ UNCHANGED restOfLook
    \/ LUnwrap /\ UNCHANGED restOfLook
    \/ LReturn /\ UNCHANGED restOfLook
    \/ LCallAgain /\ UNCHANGED restOfLook

SpecLook == InitLook /\ [][NextLook]_vars

\* ResolveError applied to an error and its result inspected.
InitResolve ==
    ResInit /\ RecInit /\ MidIdle /\ MuxIdle /\ TearIdle /\ LookIdle /\ EhIdle /\ NewIdle
    /\ RunIdle /\ TxIdle
    /\ ExecIdle /\ PwIdle

NextResolve ==
    \/ RResolve /\ UNCHANGED restOfRes
    \/ RAs /\ UNCHANGED restOfRes
    \/ RError /\ UNCHANGED restOfRes
    \/ RIs /\ UNCHANGED restOfRes

SpecResolve == InitResolve /\ [][NextResolve]_vars

\* A request through LogAndErrHandling installed as the global middleware.
InitErrHandling ==
    EhInit /\ RecInit /\ MidIdle /\ MuxIdle /\ TearIdle /\ LookIdle /\ ResIdle /\ NewIdle
    /\ RunIdle /\ TxIdle
    /\ ExecIdle /\ PwIdle

NextErrHandling ==
    \/ EMissing /\ UNCHANGED restOfEh
    \/ ECallNext /\ UNCHANGED restOfEh
    \/ ECompleted /\ UNCHANGED restOfEh
    \/ EMapError /\ UNCHANGED restOfEh
    \/ ELog /\ UNCHANGED restOfEh
    \/ EHandleNil /\ UNCHANGED restOfEh
    \/ EHandleErr /\ UNCHANGED restOfEh

SpecErrHandling == InitErrHandling /\ [][NextErrHandling]_vars

\* The runner with its server goroutine and the signals.
InitRun ==
    RunInit /\ RecInit /\ MidIdle /\ MuxIdle /\ TearIdle /\ LookIdle /\ ResIdle /\ EhIdle /\ NewIdle
    /\ TxIdle
    /\ ExecIdle /\ PwIdle

NextRun ==
    \/ GSignal /\ UNCHANGED restOfRun
    \/ GStart /\ UNCHANGED restOfRun
    \/ GListen /\ UNCHANGED restOfRun
    \/ GListenReturn /\ UNCHANGED restOfRun
    \/ GSelectSignal /\ UNCHANGED restOfRun
    \/ GSelectErr /\ UNCHANGED restOfRun
    \/ GShutdown /\ UNCHANGED restOfRun
    \/ GShutdownReturn /\ UNCHANGED restOfRun
    \/ GClose /\ UNCHANGED restOfRun
    \/ GCloseReturn /\ UNCHANGED restOfRun
    \/ GCompleted /\ UNCHANGED restOfRun

SpecRun == InitRun /\ [][NextRun]_vars

\* ExecTransaction over every list of Atomics.
InitTx ==
    TxInit /\ RecInit /\ MidIdle /\ MuxIdle /\ TearIdle /\ LookIdle /\ ResIdle /\ EhIdle /\ NewIdle
    /\ RunIdle
    /\ ExecIdle /\ PwIdle

NextTx ==
    \/ TBegin /\ UNCHANGED restOfTx
    \/ TAtomic /\ UNCHANGED restOfTx
    \/ TRollback /\ UNCHANGED restOfTx
    \/ TCommit /\ UNCHANGED restOfTx

SpecTx == InitTx /\ [][NextTx]_vars

\* The Atomic of NamedExec over every configuration and driver result.
InitExec ==
    ExecInit /\ RecInit /\ MidIdle /\ MuxIdle /\ TearIdle /\ LookIdle /\ ResIdle /\ EhIdle
    /\ NewIdle /\ RunIdle /\ TxIdle /\ PwIdle

NextExec ==
    \/ NeExec /\ UNCHANGED restOfExec
    \/ NeAffected /\ UNCHANGED restOfExec
    \/ NeLastID /\ UNCHANGED restOfExec

SpecExec == InitExec /\ [][NextExec]_vars

\* Goroutines setting the comparer and using it.
InitPw ==
    PwInit /\ RecInit /\ MidIdle /\ MuxIdle /\ TearIdle /\ LookIdle /\ ResIdle /\ EhIdle
    /\ NewIdle /\ RunIdle /\ TxIdle /\ ExecIdle

NextPw ==
    \/ (\E p \in Procs : PSet(p)) /\ UNCHANGED restOfPw
    \/ (\E p \in Procs : PLock(p)) /\ UNCHANGED restOfPw
    \/ (\E p \in Procs : PStore(p)) /\ UNCHANGED restOfPw
    \/ (\E p \in Procs : PUnlock(p)) /\ UNCHANGED restOfPw
    \/ (\E p \in Procs : PRead(p)) /\ UNCHANGED restOfPw
    \/ (\E p \in Procs : PLoad(p)) /\ UNCHANGED restOfPw
    \/ (\E p \in Procs : PDispatch(p)) /\ UNCHANGED restOfPw

SpecPw == InitPw /\ [][NextPw]_vars

\* ------------------------------------------------------- recorder properties
\* The LogEntry of the request in flight in slot q, and its two bodies.
Log(q) == recs[cur[q]].log
LogReqBody(q) == bufs[Log(q).reqBody]
LogResBody(q) == bufs[Log(q).resBody]

\* The step is a call of op by the handler of q.
Called(q, op) == ops'[q] = ops[q] + 1 /\ obs'[q].op = op

\* C6 (state part): in every recorder, pooled or checked out, StatusCode and
\* RespondedAt are both zero or both set.
C6_BothOrNone ==
    \A l \in 1 .. Len(recs) :
        (recs[l].log.StatusCode = 0) <=> (recs[l].log.RespondedAt = 0)

\* C6 (step part): a WriteHeader on the recorder, explicit with its code or
\* implicit through Write with 200, sets both fields and is forwarded when
\* nothing was committed, and otherwise changes neither and is not forwarded.
C6_WriteHeaderStep ==
    \A q \in slots :
        (Called(q, "WriteHeader") \/ Called(q, "Write")) =>
            LET code == IF obs'[q].op = "Write" THEN StatusOK ELSE obs'[q].n
            IN  IF Log(q).RespondedAt = 0
                THEN /\ Log(q)'.StatusCode = code
                     /\ Log(q)'.RespondedAt > 0
                     /\ rw'[q].hdr = Append(rw[q].hdr, code)
                ELSE /\ Log(q)'.StatusCode = Log(q).StatusCode
                     /\ Log(q)'.RespondedAt = Log(q).RespondedAt
                     /\ rw'[q].hdr = rw[q].hdr

\* C6: StatusCode and RespondedAt are set together by the first WriteHeader
\* (explicit or through Write) and never again: later calls change neither
\* and do not reach the underlying response writer.
C6_CommitOnce == []C6_BothOrNone /\ [][C6_WriteHeaderStep]_vars

\* C6 witness: the handler called WriteHeader with a code after the status was
\* committed with another one, and the first one stands.
C6_Witness ==
    \E q \in slots :
        /\ cur[q] # 0
        /\ obs[q].op = "WriteHeader"
        /\ Log(q).StatusCode # obs[q].n
        /\ rw[q].hdr = <<Log(q).StatusCode>>

\* C7: as long as no Write was made with DiscardResBody set, ResBody() is the
\* concatenation of the bytes of the successful Writes, whatever DiscardReqBody is.
C7_ResBodyRoundTrip ==
    \A q \in slots :
        (cur[q] # 0 /\ ~sent[q].resDiscarded) => LogResBody(q) = sent[q].bytes

\* C8: a Write forwards the bytes to the underlying writer, and what it adds
\* to the response-body buffer depends on DiscardResBody alone: nothing when
\* it is set, the bytes of a successful Write when it is not.
C8_WriteStep ==
    \A q \in slots :
        Called(q, "Write") =>
            /\ rw'[q].body = rw[q].body \o SubSeq(obs'[q].b, 1, obs'[q].un)
            /\ bufs'[Log(q).resBody] =
                 IF Log(q).DiscardResBody \/ obs'[q].uerr # "nil"
                 THEN LogResBody(q)
                 ELSE LogResBody(q) \o obs'[q].b

C8_DiscardResBodyAlone == [][C8_WriteStep]_vars

\* C9: a Read through the recorder hands the caller the byte count and the
\* error of the original body's Read.
C9_ReadTransparent ==
    \A q \in slots :
        obs[q].op = "Read" => (obs[q].n = obs[q].un /\ obs[q].err = obs[q].uerr)

\* C10 (step part): a Read appends the bytes just read to the request-body
\* buffer when DiscardReqBody is false, and nothing when it is true.
C10_ReadStep ==
    \A q \in slots :
        Called(q, "Read") =>
            bufs'[Log(q).reqBody] =
                IF Log(q).DiscardReqBody THEN LogReqBody(q) ELSE LogReqBody(q) \o obs'[q].b

\* C10 (state part): the buffer is empty until the first Read, and once the
\* whole body was read with DiscardReqBody false it is the original body.
C10_BufferIsBody ==
    \A q \in slots :
        cur[q] # 0 =>
            /\ ~sent[q].read => LogReqBody(q) = <<>>
            /\ (body[q].pos = Len(body[q].data) /\ ~sent[q].reqDiscarded)
                   => LogReqBody(q) = body[q].data

\* C10: the request-body buffer records exactly what the handler read.
C10_ReqBodyCapture == []C10_BufferIsBody /\ [][C10_ReadStep]_vars

\* C10 witness: a body of two bytes read to its end in two Reads.
C10_Witness ==
    \E q \in slots :
        /\ cur[q] # 0
        /\ obs[q].op = "Read"
        /\ Len(obs[q].b) = 1
        /\ body[q].pos = 2
        /\ LogReqBody(q) = <<1, 2>>

\* ------------------------------------------------------ composer properties
\* The side effects of calling m1(m2(...mn(h))) written out by hand: the
\* first steps of m1 .. mn, the handler, the deferred steps of mn .. m1.
RECURSIVE NestedTrace(_, _)
NestedTrace(ms, h) ==
    IF ms = <<>>
    THEN <<Ran(h)>>
    ELSE <<Pre(Head(ms).id)>> \o NestedTrace(Tail(ms), h) \o <<Post(Head(ms).id)>>

\* C1: once the handler made by Reduce(m1..mn).Then(h) has returned, its side
\* effects are those of m1(m2(...mn(h))) in the same order - pre-steps of
\* m1..mn, h, post-steps of mn..m1 - and its result is h's; with no
\* middleware it is h alone.
C1_ReduceIsNesting ==
    mPc = "done" =>
        LET n == Len(mMids)
        IN  /\ mExec.trace = NestedTrace(mMids, mBase.id)
            /\ mExec.trace = [i \in 1 .. n |-> Pre(mMids[i].id)]
                             \o <<Ran(mBase.id)>>
                             \o [i \in 1 .. n |-> Post(mMids[n + 1 - i].id)]
            /\ n = 0 => mChain = <<Base(mBase.id)>>
            /\ mBase.r # "panic" => mExec.ret = mBase.r
            /\ mExec.panic = (mBase.r = "panic")

\* C1 witness: three different middlewares around a mux handler, all returned.
C1_Witness ==
    /\ mPc = "done"
    /\ mKind = "mux"
    /\ mMids = <<Mid(2), Mid(1), Mid(3)>>
    /\ Len(mExec.trace) = 7

\* --------------------------------------------------------- router properties
\* The request is one the router dispatched to a registered route, and the
\* middlewares listed for that route at registration.
Dispatched == xPc \in {"chain", "responded"} /\ Lookup(xMux, xReq) = "match"
Listed(method) == Len(xMux.core.trees[method]) - 1

\* Whether the route's handler has run: every middleware called next.
HandlerRan == \E i \in 1 .. Len(xExec.trace) : xExec.trace[i].ev = "h"

\* C2: on a mux with global middleware, once a dispatch to a route registered
\* with middlewares has run, every middleware calling next, its side effects
\* are in this order: the global pre-step, the route's pre-steps in listed
\* order, the route handler, the route's post-steps in reverse order, the
\* global post-step.
C2_DispatchOrder ==
    (/\ xPc = "responded" /\ Dispatched /\ HandlerRan
     /\ xMux.midl = Global /\ Listed(xReq.method) >= 1) =>
        LET n == Listed(xReq.method)
        IN  xExec.trace =
                <<Pre(Global.id)>>
                \o [k \in 1 .. n |-> Pre(RouteMid(xReq.method, k).id)]
                \o <<Ran(RouteHandler(xReq.method).id)>>
                \o [k \in 1 .. n |-> Post(RouteMid(xReq.method, n + 1 - k).id)]
                \o <<Post(Global.id)>>

\* C2 witness: a dispatch to POST, registered with two middlewares on a mux
\* with global middleware, has run to its end.
C2_Witness ==
    /\ xPc = "responded"
    /\ xReq = [method |-> "POST", path |-> RoutePath]
    /\ xMux.midl = Global
    /\ Listed("POST") = 2
    /\ Len(xExec.trace) = 7

\* C3: while and after a request is dispatched to a route, whatever has run is
\* the global middleware, that route's own middlewares or its handler: no
\* middleware listed for another route runs.
C3_RouteMiddlewareIsLocal ==
    Dispatched =>
        \A i \in 1 .. Len(xExec.trace) :
            \/ xExec.trace[i].id = Global.id /\ xMux.midl = Global
            \/ xExec.trace[i].id[1] = xReq.method

\* C3 witness: GET is registered with two middlewares, POST with one, and a
\* dispatch to POST has run to its end on a mux with global middleware.
C3_Witness ==
    /\ xPc = "responded"
    /\ xReq = [method |-> "POST", path |-> RoutePath]
    /\ xMux.midl = Global
    /\ Listed("GET") = 2
    /\ Listed("POST") = 1
    /\ Len(xExec.trace) = 5

FiveOutcomes == {"success", "not-found", "method-not-allowed", "panic-handled",
                 "last-resort-error"}
Commits(q) == Len(rw[q].hdr)

\* C5 as stated: once a request is answered, exactly one of the five outcomes
\* has answered it and the recorder has committed a status exactly once.
C5_OneOutcomeOneCommit ==
    \A q \in slots :
        (xPc = "responded" /\ cur[q] # 0) =>
            /\ Len(xOut) = 1
            /\ xOut[1] \in FiveOutcomes
            /\ Commits(q) = 1
            /\ Log(q).StatusCode # 0

\* C5 amended: exactly one of the five outcomes, a redirect or the router's
\* own reply to OPTIONS answers a request; the recorder never commits a status
\* twice, has committed exactly what it forwarded, and has committed once
\* whenever a redirect or the not-found, method-not-allowed, panic or last
\* resort handler answered.
C5_OneOutcomeAtMostOneCommit ==
    \A q \in slots :
        /\ cur[q] # 0 =>
              /\ Commits(q) <= 1
              /\ (Commits(q) = 1) <=> (Log(q).StatusCode # 0)
              /\ Commits(q) = 1 => rw[q].hdr = <<Log(q).StatusCode>>
        /\ (xPc = "responded" /\ cur[q] # 0) =>
              /\ Len(xOut) = 1
              /\ xOut[1] \in FiveOutcomes \cup {"redirect", "options"}
              /\ xOut[1] \in FiveOutcomes <=> Lookup(xMux, xReq) \notin {"redirect", "options"}
              /\ xOut[1] \notin {"success", "options"} => Commits(q) = 1

\* C5 witness: the handler wrote its status and returned an error, the last
\* resort handler wrote its own, and one status was committed.
C5_Witness ==
    /\ xPc = "responded"
    /\ xOut = <<"last-resort-error">>
    /\ \E q \in slots : cur[q] # 0 /\ rw[q].hdr = <<StatusCreated>> /\ Len(rw[q].body) = 1

\* ------------------------------------------------- recorder properties (2)
\* C11 (step): a Write on a recorder that has committed nothing - the
\* handler's first write, with no WriteHeader before it - makes the underlying
\* writer receive WriteHeader(200) and then the Write of the bytes, in that
\* order, and sets LogEntry.StatusCode to 200.
C11_WriteStep ==
    \A q \in slots :
        (Called(q, "Write") /\ Log(q).RespondedAt = 0) =>
            /\ rw[q].calls = <<>>
            /\ rw'[q].calls = <<"WriteHeader", "Write">>
            /\ rw'[q].hdr = <<StatusOK>>
            /\ rw'[q].body = SubSeq(obs'[q].b, 1, obs'[q].un)
            /\ Log(q)'.StatusCode = StatusOK
            /\ Log(q)'.RespondedAt > 0

\* C11: when the handler's first write is a body Write, status 200 is
\* committed - forwarded and recorded - before the bytes are forwarded.
C11_DefaultStatus == [][C11_WriteStep]_vars

\* C11 witness: the first call of the handler was a Write of two bytes, and
\* the underlying writer got WriteHeader(200) and then the bytes.
C11_Witness ==
    \E q \in slots :
        /\ cur[q] # 0
        /\ ops[q] = 1
        /\ obs[q].op = "Write"
        /\ rw[q] = [hdr |-> <<StatusOK>>, body |-> <<1, 2>>, calls |-> <<"WriteHeader", "Write">>]
        /\ Log(q).StatusCode = StatusOK

\* C12 (step): the LogEntry a request finds on entry to its handler, whether
\* its recorder is new or served a request before, has no status, no commit
\* time, both discard flags false, two empty buffers, and a RequestedAt read
\* at this arrival, later than every reading before it.
C12_EnterStep ==
    \A q \in slots :
        (cur[q] = 0 /\ cur'[q] # 0) =>
            LET e == recs'[cur'[q]].log
            IN  /\ e.StatusCode = 0
                /\ e.RespondedAt = 0
                /\ ~e.DiscardReqBody
                /\ ~e.DiscardResBody
                /\ bufs'[e.reqBody] = <<>>
                /\ bufs'[e.resBody] = <<>>
                /\ e.RequestedAt > clock
                /\ e.RequestedAt <= clock'

\* C12: a recorder checked out again shows nothing of the request it served
\* before: all fields are reset on entry to the next handler.
C12_FreshOnCheckout == [][C12_EnterStep]_vars

\* C12 witness: the one recorder there is, after serving a first request, is
\* checked out for the second, whose handler has not acted yet.
C12_Witness ==
    \E q \in slots :
        /\ served = 1
        /\ Len(recs) = 1
        /\ cur[q] = 1
        /\ ops[q] = 0
        /\ Log(q).RequestedAt > 2

\* The buffers the request in flight in slot q holds through its LogEntry.
Buffers(q) == {Log(q).reqBody, Log(q).resBody}

\* C13 (state): a request in flight holds a recorder that is not in the
\* recorder pool and writes to that request's writer, and two different
\* buffers that are not in the byte-buffer pool; two requests in flight hold
\* different recorders and have no buffer in common.
C13_Exclusive ==
    \A q \in slots :
        cur[q] # 0 =>
            /\ cur[q] \notin rpool
            /\ recs[cur[q]].ResponseWriter = q
            /\ Log(q).reqBody # Log(q).resBody
            /\ Buffers(q) \cap bpool = {}
            /\ \A p \in slots \ {q} :
                  cur[p] # 0 => cur[p] # cur[q] /\ Buffers(p) \cap Buffers(q) = {}

\* C13 (step): a Read or Write by the handler of one request leaves the
\* recorder, the buffers and the writer of every other request in flight as
\* they were.
C13_OthersUntouched ==
    \A q \in slots :
        (Called(q, "Read") \/ Called(q, "Write")) =>
            \A p \in slots \ {q} :
                cur[p] # 0 =>
                    /\ cur'[p] = cur[p]
                    /\ recs'[cur[p]] = recs[cur[p]]
                    /\ \A b \in Buffers(p) : bufs'[b] = bufs[b]
                    /\ rw'[p] = rw[p]

C14_PoolHoldsNoRefs ==
    \A r \in rpool : recs[r].req = NilRef /\ recs[r].ResponseWriter = 0

\* C14 (step): inside putLogEntryRecorder the buffers go back to the
\* byte-buffer pool first, the two references are cleared next, both while
\* the recorder is still outside the recorder pool, and a recorder enters the
\* pool only from the last statement, with its references already cleared.
C14_TeardownStep ==
    /\ \A q \in slots :
          /\ (tpc[q] = "none" /\ tpc'[q] = "buffers") =>
                /\ Buffers(q) \subseteq bpool'
                /\ \A b \in Buffers(q) : bufs'[b] = <<>>
                /\ cur[q] \notin rpool'
          /\ (tpc[q] = "buffers" /\ tpc'[q] = "cleared") =>
                /\ recs'[cur[q]].req = NilRef
                /\ recs'[cur[q]].ResponseWriter = 0
                /\ cur[q] \notin rpool'
    /\ \A r \in rpool' \ rpool :
          /\ \E q \in slots : cur[q] = r /\ tpc[q] = "cleared" /\ tpc'[q] = "none"
          /\ recs[r].req = NilRef
          /\ recs[r].ResponseWriter = 0

\* C14: at request exit the buffers are returned and the recorder's
\* references to the request body and the response writer are cleared
\* strictly before the recorder is put back, so a pooled recorder never holds
\* a previous request's body or writer.
C14_ClearedBeforePooled == []C14_PoolHoldsNoRefs /\ [][C14_TeardownStep]_vars

\* C14 witness: a recorder that served a request whose handler wrote is back
\* in the pool, and its buffers are back in the byte-buffer pool.
C14_Witness ==
    /\ served = 1
    /\ rpool = {1}
    /\ recs[1].log.StatusCode = StatusOK
    /\ {recs[1].log.reqBody, recs[1].log.resBody} \subseteq bpool

\* C16: when the underlying writer's Write fails, the recorder's Write
\* returns that error with the underlying byte count, and the response-body
\* buffer is left as it was.
C16_FailedWriteStep ==
    \A q \in slots :
        (Called(q, "Write") /\ obs'[q].uerr # "nil") =>
            /\ obs'[q].n = obs'[q].un
            /\ obs'[q].err = obs'[q].uerr
            /\ bufs'[Log(q).resBody] = LogResBody(q)

C16_WriteErrorPropagates == [][C16_FailedWriteStep]_vars

\* C16 witness: with capture on, a Write of two bytes failed after the
\* underlying writer took one; the caller got (1, error), nothing was captured.
C16_Witness ==
    \E q \in slots :
        /\ cur[q] # 0
        /\ obs[q].op = "Write"
        /\ Len(obs[q].b) = 2
        /\ obs[q].un = 1
        /\ obs[q].uerr = "errWrite"
        /\ obs[q].n = 1
        /\ obs[q].err = "errWrite"
        /\ ~Log(q).DiscardReqBody
        /\ rw[q].body # <<>>
        /\ LogResBody(q) = <<>>

\* ---------------------------------------------------- GetLogEntry properties
\* The first layer of w that is not a wrapper with Unwrap, 0 if there is none.
FirstNonWrapper(w) ==
    IF \E i \in 1 .. Len(w) : w[i].t # "wrapper"
    THEN CHOOSE i \in 1 .. Len(w) :
            /\ w[i].t # "wrapper"
            /\ \A j \in 1 .. i - 1 : w[j].t = "wrapper"
    ELSE 0

\* C15: GetLogEntry(w) returns the recorder's LogEntry and true when w is the
\* recorder or reaches it through wrappers exposing Unwrap, and (nil, false)
\* when the chain ends at a writer that is neither; a second lookup from the
\* same writer returns the same LogEntry.
C15_Lookup ==
    lPc = "done" =>
        LET i == FirstNonWrapper(lW)
        IN  /\ lRes.set
            /\ IF i # 0 /\ lW[i].t = "recorder"
               THEN lRes.ok /\ lRes.log = lW[i].log
               ELSE ~lRes.ok /\ lRes.log = 0
            /\ lFirst.set => lFirst = lRes

\* C15 witness: the recorder of LogEntry 2 behind MaxWrap wrappers was looked
\* up twice and found twice.
C15_Witness ==
    /\ lPc = "done"
    /\ Len(lW) = MaxWrap + 1
    /\ \A i \in 1 .. MaxWrap : lW[i] = Wrapper
    /\ lW[MaxWrap + 1] = Recorder(2)
    /\ lFirst = [log |-> 2, ok |-> TRUE, set |-> TRUE]
    /\ lRes = lFirst

\* ------------------------------------------------- error handling properties
\* Whether a *ResolvedError is one of the layers of err.
HasResolved(err) == \E i \in 1 .. Len(err) : err[i].t = "resolved"

RenderedBy(who) == \E i \in 1 .. Len(eOut) : eOut[i].by = who

\* C17: with LogAndErrHandling as the global middleware, a handler error that
\* was not mapped and marked resolved has, once the request is answered, been
\* rendered by the LastResortErrorHandler and logged at error level.
C17_UnresolvedToLastResort ==
    (/\ ePc = "done"
     /\ GetLogEntry(eW).ok
     /\ eErr # NilErr
     /\ ~HasResolved(eMapped)) =>
        /\ RenderedBy("LastResortErrorHandler")
        /\ \E i \in 1 .. Len(eLogs) : eLogs[i].level = "ERROR"

\* C18: the ServeMux never calls the LastResortErrorHandler with a resolved
\* error.
C18_ResolvedSkipsLastResort ==
    \A i \in 1 .. Len(xErrs) : xErrs[i] # "resolved"

\* C19: for a non-nil e, errors.As finds in ResolveError(e) a *ResolvedError
\* whose Err is e, its Error() is e.Error(), and errors.Is(ResolveError(e), e)
\* holds.
C19_ResolveErrorKeepsOriginal ==
    rPc = "done" =>
        /\ rAs.ok
        /\ rAs.Err = rE
        /\ rText = Error(rE)
        /\ rIs

\* C20: LogAndErrHandling writes no record before the handler has returned
\* nor for a request it does not let through, and exactly one for a request
\* it lets through: info "completed" if the handler returned nil, else info
\* "resolved_error" if a *ResolvedError is in the chain of the mapped error
\* and error "unresolved_error" if none is.
C20_OneRecord ==
    /\ (ePc \in {"start", "returned", "mapped"} \/ ~GetLogEntry(eW).ok) => eLogs = <<>>
    /\ (ePc \in {"mux", "done"} /\ GetLogEntry(eW).ok) =>
          /\ Len(eLogs) = 1
          /\ eErr = NilErr =>
                eLogs[1].level = "INFO" /\ eLogs[1].msg = "completed"
          /\ (eErr # NilErr /\ HasResolved(eMapped)) =>
                eLogs[1].level = "INFO" /\ eLogs[1].msg = "resolved_error"
          /\ (eErr # NilErr /\ ~HasResolved(eMapped)) =>
                eLogs[1].level = "ERROR" /\ eLogs[1].msg = "unresolved_error"

\* C20 witness: the handler returned fmt.Errorf wrapping a resolved error;
\* MapError rendered it as an untyped 500 and returned it as it was, and the
\* one record written is "resolved_error" at info level.
C20_Witness ==
    /\ ePc = "done"
    /\ GetLogEntry(eW).ok
    /\ eErr = <<ErrLayer("wrap", "handler"), ErrLayer("resolved", ""), ErrLayer("new", "boom")>>
    /\ eMapped = eErr
    /\ eOut = <<Rendered("MapError", StatusInternalServerError)>>
    /\ eLogs = <<LogAttrs("INFO", "resolved_error", <<ErrLayer("new", "boom")>>)>>

\* ------------------------------------------------------ router properties (2)
\* How many times the outcome o has answered the request.
Times(o) == Cardinality({i \in 1 .. Len(xOut) : xOut[i] = o})

\* The status the configured PanicHandler writes.
PanicStatus ==
    IF xMux.conf.PanicHandler = "default" THEN StatusInternalServerError ELSE StatusBadRequest

\* C21: a panic raised by the route's handler or by a middleware around it
\* never leaves mux.ServeHTTP; the configured PanicHandler is called exactly
\* once for it (the default one commits 500 unless the handler had committed
\* a status before), and not at all for a request without a panic.
C21_PanicHandledOnce ==
    /\ xPc # "panicked"
    /\ xMux.core.PanicHandler = xMux.conf.PanicHandler
    /\ xPc = "chain" => Times("panic-handled") = 0
    /\ (xPc = "responded" /\ xExec.panic) =>
          /\ xOut = <<"panic-handled">>
          /\ \A q \in slots : cur[q] # 0 =>
                /\ Commits(q) = 1
                /\ Log(q).StatusCode \in {StatusCreated, StatusOK, PanicStatus}
                /\ rw[q].calls[1] = "WriteHeader" => Log(q).StatusCode = rw[q].hdr[1]
    /\ (xPc = "responded" /\ ~xExec.panic) => Times("panic-handled") = 0

\* C21 witness: the global middleware panicked before the route's handler
\* ran, and the default PanicHandler answered with 500.
C21_Witness ==
    /\ xPc = "responded"
    /\ xExec.panic
    /\ xExec.trace = <<Pre(Global.id), Post(Global.id)>>
    /\ xMux.conf.PanicHandler = "default"
    /\ xOut = <<"panic-handled">>
    /\ \E q \in slots : cur[q] # 0 /\ rw[q].hdr = <<StatusInternalServerError>>

\* The mux was made by NewServeMux() with no option, and the methods that have
\* a route (on RoutePath).
DefaultOptions == xMux.conf = NewServeMux(<<>>).conf /\ xMux.midl = Identity
RouteMethods == {m \in Methods : Registered(xMux, m)}
Answered(out, hdr) ==
    /\ xOut = <<out>>
    /\ xExec.trace = <<>>
    /\ \A q \in slots : cur[q] # 0 => rw[q].hdr = hdr

C23_FixedAtReduce ==
    mPc = "done" => mExec.trace = NestedTrace(mAtReduce, mBase.id)

\* -------------------------------------------------- NewServeMux properties
\* The value of the last option for o in the list, "nil" if there is none.
LastGiven(opts, o) ==
    LET at == {i \in 1 .. Len(opts) : opts[i].opt = o}
    IN  IF at = {} THEN "nil"
        ELSE opts[CHOOSE i \in at : \A j \in at : j <= i].val

\* C24: the mux NewServeMux returns has NotFound, MethodNotAllowed,
\* PanicHandler, LastResortErrorHandler and a global middleware, none nil:
\* the caller's when the caller gave one, the default otherwise; the router
\* is given the same handlers; each of the four flags is true unless an
\* option set it false.
C24_NewServeMuxDefaults ==
    nPc = "made" =>
        /\ \A h \in Hooks \ {"GlobalOPTIONS"} :
              /\ nMux.conf[h] # "nil"
              /\ nMux.conf[h] = IF LastGiven(nOpts, h) = "custom" THEN "custom" ELSE "default"
        /\ \A h \in Hooks \ {"LastResortErrorHandler"} : nMux.core[h] = nMux.conf[h]
        /\ nMux.midl # NoMiddleware
        /\ nMux.midl = IF LastGiven(nOpts, "Middleware") = "global" THEN Global ELSE Identity
        /\ \A f \in Flags :
              /\ (\A i \in 1 .. Len(nOpts) : nOpts[i] # [opt |-> f, val |-> "false"]) =>
                    nMux.conf[f] = "true"
              /\ nMux.core[f] = nMux.conf[f]

\* C24 witness: the caller gave its own PanicHandler and switched
\* RedirectFixedPath off; the other handlers are the defaults.
C24_Witness ==
    /\ nPc = "made"
    /\ nOpts = <<[opt |-> "PanicHandler", val |-> "custom"],
                 [opt |-> "RedirectFixedPath", val |-> "false"]>>
    /\ nMux.conf.PanicHandler = "custom"
    /\ nMux.conf.NotFound = "default"
    /\ nMux.conf.RedirectFixedPath = "false"
    /\ nMux.conf.RedirectTrailingSlash = "true"
    /\ nMux.midl = Identity

\* C25: Close on the substituted request body calls Close on the original
\* body exactly when one is set, once, and returns what it returned; with no
\* original body it returns nil and changes nothing.
C25_CloseStep ==
    \A q \in slots :
        Called(q, "Close") =>
            IF recs[cur[q]].req # NilRef
            THEN /\ body' = [body EXCEPT ![recs[cur[q]].req.id].closed = @ + 1]
                 /\ obs'[q].err = obs'[q].uerr
                 /\ <<recs, bufs, rpool, bpool, rw, reqBody, clock>>' =
                        <<recs, bufs, rpool, bpool, rw, reqBody, clock>>
            ELSE /\ obs'[q].err = "nil"
                 /\ Mem' = Mem

C25_ClosePropagates == [][C25_CloseStep]_vars

\* C25 witness: the original body was closed once, its Close failed and the
\* handler got that error.
C25_Witness ==
    \E q \in slots :
        /\ cur[q] # 0
        /\ obs[q].op = "Close"
        /\ recs[cur[q]].req = BodyRef(q)
        /\ body[q].closed = 1
        /\ obs[q].uerr = "errClose"
        /\ obs[q].err = "errClose"

\* C25 witness, no original body: Close returned nil.
C25_WitnessNoBody ==
    \E q \in slots :
        /\ cur[q] # 0
        /\ obs[q].op = "Close"
        /\ recs[cur[q]].req = NilRef
        /\ obs[q].err = "nil"

\* The positions of gLog holding an entry ev.
GAt(ev) == {i \in 1 .. Len(gLog) : gLog[i].ev = ev}

\* C26: when the wrapped server's ListenAndServe returns an error other than
\* http.ErrServerClosed before any signal was delivered or received, neither
\* Shutdown nor Close is called and the runner returns an error wrapping that
\* error.
C26_ListenFailure ==
    \A i \in GAt("ListenAndServe.ret") :
        (gLog[i].v \notin {"ErrServerClosed", "nil"}
            /\ \A j \in GAt("signal") \cup GAt("notify") : j > i) =>
            /\ GAt("Shutdown") = {}
            /\ GAt("Close") = {}
            /\ gPc = "returned" => gLog[i].v \in gRet.wraps

\* C27: Shutdown is called only after the runner received a signal, once,
\* with a context whose deadline is the wait timeout; after Shutdown returned
\* nil the runner waits for the goroutine, returns nil only once the server's
\* ListenAndServe has returned http.ErrServerClosed, and never calls Close.
C27_GracefulShutdown ==
    /\ Cardinality(GAt("Shutdown")) <= 1
    /\ \A i \in GAt("Shutdown") :
          /\ \E j \in GAt("signal") : j < i
          /\ gLog[i].d = gWait
          /\ gLog[i].d > 0
    /\ (GAt("signal") # {} /\ gPc \notin {"select", "signalled"}) =>
          Cardinality(GAt("Shutdown")) = 1
    /\ \A i \in GAt("Shutdown.ret") :
          gLog[i].v = "nil" =>
             /\ GAt("Close") = {}
             /\ gPc \in {"waiting", "returned"}
             /\ gPc = "returned" =>
                   /\ gRet = NoError
                   /\ \E j \in GAt("ListenAndServe.ret") : gLog[j].v = "ErrServerClosed"

\* C27 witness: a signal was received, Shutdown got the deadline and returned
\* nil, the server's ListenAndServe returned after that, the runner returned nil.
C27_Witness ==
    /\ gPc = "returned"
    /\ gRet = NoError
    /\ gWait = 10
    /\ \E i \in GAt("Shutdown.ret") :
          /\ gLog[i].v = "nil"
          /\ \E j \in GAt("ListenAndServe.ret") : j > i /\ gLog[j].v = "ErrServerClosed"
    /\ \E i \in GAt("Shutdown") : gLog[i].d = 10
    /\ GAt("Close") = {}

\* C28: Close is called only after Shutdown returned context.DeadlineExceeded,
\* and is called then; the runner returns nil when Close returned nil and an
\* error wrapping Close's error otherwise; after any other failure of Shutdown
\* it returns an error wrapping that failure and Close is not called.
C28_ForcedClose ==
    /\ Cardinality(GAt("Close")) <= 1
    /\ \A i \in GAt("Close") :
          \E j \in GAt("Shutdown.ret") : j < i /\ gLog[j].v = "DeadlineExceeded"
    /\ \A j \in GAt("Shutdown.ret") :
          CASE gLog[j].v = "DeadlineExceeded" ->
                  /\ gPc \in {"forcing", "inClose", "returned"}
                  /\ gPc # "forcing" => GAt("Close") # {}
                  /\ gPc = "returned" =>
                        \E k \in GAt("Close.ret") :
                           IF gLog[k].v = "nil"
                           THEN gRet = NoError
                           ELSE gRet # NoError /\ gLog[k].v \in gRet.wraps
            [] gLog[j].v = "nil" -> GAt("Close") = {}
            [] OTHER ->
                  /\ GAt("Close") = {}
                  /\ gPc = "returned"
                  /\ gLog[j].v \in gRet.wraps

\* C28 witness: Shutdown ran out of time, Close was called after it and
\* failed, the runner returned an error wrapping Close's.
C28_Witness ==
    /\ gPc = "returned"
    /\ "errClose" \in gRet.wraps
    /\ \E j \in GAt("Shutdown.ret"), k \in GAt("Close") :
          j < k /\ gLog[j].v = "DeadlineExceeded"

\* The positions of tLog holding a call ev.
TAt(ev) == {i \in 1 .. Len(tLog) : tLog[i].ev = ev}

\* C29: once the call of ExecTransaction is over: after a failed BeginTxx no
\* Atomic ran and neither Commit nor Rollback was called; otherwise exactly
\* one of the two was called, once, Rollback exactly when an Atomic returned
\* an error, Commit exactly when every Atomic returned nil, and a failed Commit
\* is returned as an error, with no Rollback.
C29_CommitOrRollbackOnce ==
    tPc \in {"returned", "panicked"} =>
        IF tBegin # "nil"
        THEN TAt("Atomic") = {} /\ TAt("Commit") = {} /\ TAt("Rollback") = {}
        ELSE /\ Cardinality(TAt("Commit")) + Cardinality(TAt("Rollback")) = 1
             /\ TAt("Rollback") # {} <=>
                   \E i \in TAt("Atomic") : tLog[i].err \notin {"nil", "panic"}
             /\ TAt("Commit") # {} <=>
                   \A k \in 1 .. Len(tAtoms) :
                      \E i \in TAt("Atomic") : tLog[i].i = k /\ tLog[i].err = "nil"
             /\ \A i \in TAt("Commit") :
                   tLog[i].err # "nil" =>
                      /\ tRet # NoError
                      /\ tLog[i].err \in tRet.wraps
                      /\ TAt("Rollback") = {}

\* The calls of Atomics in tLog, in order.
AtomicCalls == SelectSeq(tLog, LAMBDA x : x.ev = "Atomic")

\* C30: the Atomics run in argument order, each one is passed the context
\* the one before it returned, none runs after one that returned an error, and
\* the error returned wraps that Atomic's error, and the rollback's error too
\* when the rollback failed.
C30_OrderContextAndError ==
    /\ \A k \in 1 .. Len(AtomicCalls) :
          /\ AtomicCalls[k].i = k
          /\ AtomicCalls[k].ctx =
                IF k = 1 THEN <<>>
                ELSE Exec(tAtoms[k - 1], k - 1, AtomicCalls[k - 1].ctx).ctx
          /\ \A j \in 1 .. k - 1 : AtomicCalls[j].err = "nil"
    /\ tPc = "returned" =>
          \A k \in 1 .. Len(AtomicCalls) :
             AtomicCalls[k].err \notin {"nil", "panic"} =>
                /\ AtomicCalls[k].err = AtomicErr(k)
                /\ AtomicErr(k) \in tRet.wraps
                /\ \A i \in TAt("Rollback") :
                      tLog[i].err # "nil" => tLog[i].err \in tRet.wraps

\* C30 witness: of three Atomics the first derived a context, the second got
\* it and failed, the third did not run, the rollback failed too.
C30_Witness ==
    /\ tPc = "returned"
    /\ Len(tAtoms) = 3
    /\ Len(AtomicCalls) = 2
    /\ AtomicCalls[2].ctx = <<1>>
    /\ tRet.wraps = {"errAtomic2", "errRollback"}

\* The stores made to destination d.
NeStores(d) == {i \in 1 .. Len(neWrites) : neWrites[i].dst = d}

\* RowsAffected was called and gave no error.
RowsRead ==
    /\ neRes.execErr = "nil"
    /\ neConf.verifyAffected \/ neConf.readAffected
    /\ neRes.rowsErr = "nil"

\* A failure before doLastInsertIDAction: the exec failed, RowsAffected
\* failed, or the count is not the expected one.
EarlierFailure ==
    \/ neRes.execErr # "nil"
    \/ /\ neConf.verifyAffected \/ neConf.readAffected
       /\ \/ neRes.rowsErr # "nil"
          \/ neConf.verifyAffected /\ neRes.rows # neConf.expectAffected

\* C31: the affected-rows destination is stored to only after RowsAffected
\* succeeded; the last-inserted-id destination only after exec, affected-rows
\* read and verification succeeded; after an earlier failure it holds the value
\* it had, and a count that is not the expected one gives
\* ErrUnexpectedAffectedRows.
C31_NamedExecWrites ==
    /\ NeStores("affected") # {} => RowsRead /\ neConf.readAffected
    /\ \A i \in NeStores("affected") : neWrites[i].v = neRes.rows
    /\ NeStores("id") # {} => ~EarlierFailure /\ neRes.idErr = "nil"
    /\ EarlierFailure => neDst.id = 0
    /\ (nePc = "returned" /\ EarlierFailure) => neErr # NoError
    /\ (nePc = "returned" /\ RowsRead /\ neConf.verifyAffected
            /\ neRes.rows # neConf.expectAffected) =>
          "ErrUnexpectedAffectedRows" \in neErr.wraps

\* C31 witness: the count read was stored, it is not the expected one, and
\* the last-inserted-id destination, asked for, was left alone.
C31_Witness ==
    /\ nePc = "returned"
    /\ neConf.readAffected /\ neConf.verifyAffected /\ neConf.lastInsertedID
    /\ neRes.rows = 2
    /\ neConf.expectAffected = 1
    /\ neDst = [affected |-> 2, id |-> 0]
    /\ neRes.idErr = "nil"
    /\ "ErrUnexpectedAffectedRows" \in neErr.wraps

\* C32: every read and every write of hashComparer is made by a goroutine
\* holding the package lock.
C32_AccessUnderLock ==
    \A p \in DOMAIN pAcc : pAcc[p].kind # "none" => pAcc[p].held

\* A step of the runner or of its goroutine; signals come from outside.
RunnerStep ==
    \/ GStart \/ GListen \/ GListenReturn \/ GSelectSignal \/ GSelectErr
    \/ GShutdown \/ GShutdownReturn \/ GClose \/ GCloseReturn \/ GCompleted

\* C33: once the runner has received a signal it returns: until it has, it
\* or the server (whose ListenAndServe, Shutdown and Close return) can take a
\* step, whatever ListenAndServe returned and whenever.
C33_RunnerReturns ==
    (GAt("signal") # {} /\ gPc # "returned") => ENABLED RunnerStep

\* C34: when the runner has returned, the goroutine is not left blocked in a
\* channel send.
C34_GoroutineEnds == gPc = "returned" => gSrv # "sending"

\* C35: when the handler behind LogAndErrHandling returned an error and the
\* response can be written, the request ends with an error response, status
\* 400 or above, rendered.
C35_ErrorResponseWritten ==
    (/\ ePc = "done"
     /\ GetLogEntry(eW).ok
     /\ eErr # NilErr
     /\ ~eFail) =>
        \E i \in 1 .. Len(eOut) : eOut[i].code >= StatusBadRequest

\* C36: once LogEntryRecorder has returned for a request, the request's Body
\* is no recorder; so the reader a recorder checked out for a request wraps
\* is never a recorder, itself or another.
C36_RecorderUnreachable ==
    /\ \A q \in slots : cur[q] = 0 => reqBody[q].k # "rec"
    /\ \A q \in slots : cur[q] # 0 => recs[cur[q]].req.k # "rec"

\* The recorders that are checked out: made, and not in the pool.
CheckedOut == (1 .. Len(recs)) \ rpool

\* The requests that are inside LogEntryRecorder.
Inside == {q \in slots : cur[q] # 0}

\* C37: as many recorders are checked out as requests are inside
\* LogEntryRecorder, each request inside holding one of its own; this after
\* handlers that returned and handlers that panicked.
C37_CheckedOutMatchesInside ==
    /\ Cardinality(CheckedOut) = Cardinality(Inside)
    /\ CheckedOut = {cur[q] : q \in Inside}

\* C37 (step): a request that leaves LogEntryRecorder, by return or by panic,
\* puts its recorder, which was not in the pool, back.
C37_PutOnce ==
    [][\A q \in slots :
          (cur[q] # 0 /\ cur'[q] = 0) =>
              cur[q] \notin rpool /\ rpool' = rpool \cup {cur[q]}]_vars

\* A handler has panicked while another request is inside, and the recorder
\* of the first is in the pool.
C37_Witness ==
    \E q \in slots :
        /\ obs[q].op = "Panic"
        /\ cur[q] = 0
        /\ rpool # {}
        /\ Inside # {}

\* The steps of the global middleware in the trace of a call.
GlobalSteps(e) == {i \in 1 .. Len(e.trace) : e.trace[i].id = Global.id}

\* What the router answers by itself, and what its PanicHandler answers.
RouterAnswers == {"not-found", "method-not-allowed", "options", "redirect"}

\* C38: a step of the global middleware is taken only inside the call of a
\* route registered for the request's method and path, and answers nothing
\* by itself; the answers of NotFound, MethodNotAllowed, the automatic
\* OPTIONS reply and the redirect come with no middleware step taken at all,
\* and the PanicHandler answers without a step of the middleware.
C38_GlobalOnlyOnMatch ==
    [][/\ (GlobalSteps(xExec') \ GlobalSteps(xExec) # {}) =>
             /\ xReq.path = RoutePath
             /\ Registered(xMux, xReq.method)
             /\ xPc = "chain"
             /\ xOut' = xOut
       /\ (Len(xOut') > Len(xOut) /\ xOut'[Len(xOut')] \in RouterAnswers) =>
             xExec' = NoExec
       /\ (Len(xOut') > Len(xOut) /\ xOut'[Len(xOut')] = "panic-handled") =>
             xExec' = xExec]_vars

\* A mux with the global middleware and a route has answered a request that
\* matches no route through NotFound or MethodNotAllowed.
C38_Witness ==
    /\ xMux.midl = Global
    /\ RouteMethods # {}
    /\ xPc = "responded"
    /\ xOut \in {<<"not-found">>, <<"method-not-allowed">>}

\* On such a mux the PanicHandler has answered a panic of the route's handler.
C38_WitnessPanic ==
    /\ xMux.midl = Global
    /\ xPc = "responded"
    /\ xOut = <<"panic-handled">>
    /\ HandlerRan

====
